---- MODULE Spec2Model ----
(***************************************************************************)
(* Model of the policy retrieval and freshness engine of youthyAI:         *)
(*   backend/app/services/rag_service.py     (YouthyRAGService)            *)
(*   backend/app/services/youthcenter_api.py (YouthCenterAPIClient)        *)
(*   server.py                               (get_real_policy_data)        *)
(* Strings are sequences of one-character strings, so that strip(),        *)
(* lower(), split() and the `in` substring test are computed, not assumed. *)
(***************************************************************************)
EXTENDS Integers, Sequences, FiniteSets, TLC

VARIABLES
    pc,             \* position of the operation being executed
    docs,           \* _deduplicate_and_rank_docs: the argument `docs`
    query,          \* _deduplicate_and_rank_docs: the argument `query`
    unique_docs,    \* _deduplicate_and_rank_docs: the returned list
    today,          \* date.today()
    policy,         \* _is_policy_expired: the argument `policy`
    policies,       \* _filter_active_policies: the argument `policies`
    start_date,     \* _is_policy_expired: start_date of the application period
    end_date,       \* _is_policy_expired: end_date of the application period
    is_expired,     \* _is_policy_expired: the returned value
    active_policies, \* _filter_active_policies: the returned value
    keywords,       \* search_policies_by_keywords: the argument `keywords`
    max_results,    \* search_policies_by_keywords: the argument `max_results`
    kw_index,       \* search_policies_by_keywords: place of the loop in keywords
    requests,       \* the catalog's answers to the requests issued so far
    all_policies,   \* search_policies_by_keywords: the local all_policies
    result,         \* search_policies_by_keywords: the returned list
    openai_client,  \* YouthyRAGService.openai_client is set
    retriever,      \* YouthyRAGService.retriever is set
    user_context,   \* chat_with_rag: the argument `user_context`
    store_answer,   \* what the local store answered to search_local_policies
    local_policies, \* chat_with_rag: the local local_policies
    youthcenter_answer, \* what the external catalog search answered
    retriever_answer,   \* what the hybrid retriever answered
    external_docs,  \* the list _retrieve_relevant_policies returned
    relevant_docs,  \* chat_with_rag: the local relevant_docs
    chat_response,  \* what chat_with_rag returned
    chat_raised,    \* chat_with_rag ended by raising to its caller
    api_results,    \* get_real_policy_data: the result of each endpoint's task
    endpoint_answers,   \* what each endpoint answered
    real_policies,  \* get_real_policy_data: all_policies after the merge
    structured_policies, \* get_real_policy_data: the returned list
    format_day,     \* date.today() when the policies are formatted
    formatted_policies, \* get_policies_by_category: the policies of the response
    llm_format,      \* format_policy_for_llm: what it returned for `policy`
    raw_data, \* _normalize_policy_data: APPLY_START_DATE and APPLY_END_DATE of raw_data
    valid_from, \* _extract_validity_period: the returned start
    valid_to, \* _extract_validity_period: the returned end
    status, \* _determine_policy_status: the returned status
    taxonomy, \* YouthCenterAPIClient.POLICY_CATEGORIES, the dict of the class
    classified_policy, \* classify_policy_category: policy
    first_category, \* the category the first call returned
    category, \* classify_policy_category: the category returned last
    matched_category, \* search_policies_by_category: matched_category of the policies returned
    searches, \* number of category searches so far
    connection_pool, \* app.core.database._connection_pool
    policies_table, \* the rows of the policies table
    db_faults, \* what acquire and fetch meet in this call
    local_query, \* search_local_policies: query
    local_context, \* search_local_policies: user_context
    local_limit, \* search_local_policies: limit
    local_result, \* search_local_policies: what the call returned or raised
    rag_service, \* _rag_service: the singleton with its embeddings and its retriever
    last_setup, \* what the last setup_retriever met
    setups, \* number of initialize_rag_system calls so far
    assembled_docs, \* docs of _build_context_from_docs and _extract_references_from_docs
    built_context, \* _build_context_from_docs: what it returned or raised
    references, \* _extract_references_from_docs: references
    request_pc, \* where each request is in get_db_connection / get_db_transaction
    created_pools \* the pools asyncpg.create_pool has returned

vars == <<pc, docs, query, unique_docs, today, policy, policies, start_date,
          end_date, is_expired, active_policies, keywords, max_results,
          kw_index, requests, all_policies, result, openai_client, retriever,
          user_context, store_answer, local_policies, youthcenter_answer,
          retriever_answer, external_docs, relevant_docs, chat_response,
          chat_raised, api_results, endpoint_answers, real_policies,
          structured_policies, format_day, formatted_policies, llm_format,
          raw_data, valid_from, valid_to, status,
          taxonomy, classified_policy, first_category, category, matched_category, searches,
          connection_pool, policies_table, db_faults, local_query, local_context, local_limit, local_result,
          rag_service, last_setup, setups,
          assembled_docs, built_context, references,
          request_pc, created_pools>>

chatVars == <<openai_client, retriever, user_context, store_answer,
              local_policies, youthcenter_answer, retriever_answer,
              external_docs, relevant_docs, chat_response, chat_raised>>

realVars == <<api_results, endpoint_answers, real_policies, structured_policies>>

formatVars == <<format_day, formatted_policies, llm_format>>

pipelineVars == <<raw_data, valid_from, valid_to, status>>

categoryVars == <<taxonomy, classified_policy, first_category, category, matched_category, searches>>

localVars == <<connection_pool, policies_table, db_faults, local_query, local_context, local_limit, local_result>>

retrieverVars == <<rag_service, last_setup, setups>>

assembleVars == <<assembled_docs, built_context, references>>

poolVars == <<request_pc, created_pools>>

expiryVars == <<policy, policies, start_date, end_date, is_expired,
                active_policies>>

searchVars == <<keywords, max_results, kw_index, requests, all_policies, result>>

rankVars == <<docs, query, unique_docs>>

(***************************************************************************)
(* Bounds of the model.                                                    *)
(***************************************************************************)
MaxDocs == 3
MaxTokens == 2
MaxKeywords == 2
MaxPerResponse == 2
MaxLocal == 3
MaxSourceDocs == 1
MaxCandidates == 9
MaxFormatTokens == 1

(***************************************************************************)
(* Constants of the program.                                               *)
(***************************************************************************)
LocalEnough == 3
RetrieveCap == 8
NumEndpoints == 3
SoonDays == 7
RealCap == 5
RelevanceThreshold == 1

(***************************************************************************)
(* Python str operations on sequences of characters.                       *)
(***************************************************************************)
Range(s) == { s[i] : i \in 1..Len(s) }

IsSpace(c) == c = " "

ToLower(c) == IF c = "A" THEN "a" ELSE IF c = "B" THEN "b" ELSE c

\* str.lower()
Lower(s) == [i \in 1..Len(s) |-> ToLower(s[i])]

\* s without its leading whitespace
LStrip(s) ==
    IF \A i \in 1..Len(s) : IsSpace(s[i]) THEN <<>>
    ELSE SubSeq(s, CHOOSE i \in 1..Len(s) :
                       ~IsSpace(s[i]) /\ \A j \in 1..(i - 1) : IsSpace(s[j]),
                Len(s))

\* s without its trailing whitespace
RStrip(s) ==
    IF \A i \in 1..Len(s) : IsSpace(s[i]) THEN <<>>
    ELSE SubSeq(s, 1, CHOOSE i \in 1..Len(s) :
                          ~IsSpace(s[i]) /\ \A j \in (i + 1)..Len(s) : IsSpace(s[j]))

\* str.strip()
Strip(s) == RStrip(LStrip(s))

\* `sub in s` for two strings
Contains(s, sub) ==
    \E i \in 0..(Len(s) - Len(sub)) : SubSeq(s, i + 1, i + Len(sub)) = sub

\* set(s.split()): the maximal runs of non-whitespace characters of s
SplitWords(s) ==
    { SubSeq(s, i, j) : <<i, j>> \in
        { p \in (1..Len(s)) \X (1..Len(s)) :
            /\ p[1] <= p[2]
            /\ \A k \in p[1]..p[2] : ~IsSpace(s[k])
            /\ (p[1] = 1 \/ IsSpace(s[p[1] - 1]))
            /\ (p[2] = Len(s) \/ IsSpace(s[p[2] + 1])) } }

(***************************************************************************)
(* Documents: metadata['title'], page_content, metadata['source'].  `id`   *)
(* is the identity of the Document object (its place in the input).        *)
(***************************************************************************)
YouthCenterSource == "youthcenter"
OtherSource == "none"

Titles == { <<"a">>, <<"a", " ">>, <<"A">>, <<"b">>, <<>> }
Contents == { <<>>, <<"b">> }
Sources == { YouthCenterSource, OtherSource }
Queries == { <<"a">>, <<"A", " ", "b">> }

DocShapes == [title : Titles, page_content : Contents, source : Sources]

\* a document as the n-th element of a list
DocAt(n, shape) ==
    [id |-> n, title |-> shape.title, page_content |-> shape.page_content,
     source |-> shape.source]

(***************************************************************************)
(* YouthyRAGService._deduplicate_and_rank_docs                             *)
(***************************************************************************)
\* the loop over docs with seen_titles / unique_docs
RECURSIVE DedupLoop(_, _, _)
DedupLoop(rest, seen_titles, acc) ==
    IF rest = <<>> THEN acc
    ELSE LET doc == Head(rest)
             title == Strip(doc.title)
         IN  IF title # <<>> /\ title \notin seen_titles
             THEN DedupLoop(Tail(rest), seen_titles \cup {title}, Append(acc, doc))
             ELSE DedupLoop(Tail(rest), seen_titles, acc)

\* query_keywords = set(query.lower().split())
QueryKeywords(q) == SplitWords(Lower(q))

\* calculate_relevance with the title matches counted once, not three times
CalculateRelevanceFlatTitle(doc, query_keywords) ==
    LET content == Lower(doc.page_content)
        title == Lower(doc.title)
        title_score == Cardinality({ k \in query_keywords : Contains(title, k) })
        content_score == Cardinality({ k \in query_keywords : Contains(content, k) })
        source_bonus == IF doc.source = YouthCenterSource THEN 2 ELSE 0
    IN  title_score + content_score + source_bonus

\* calculate_relevance(doc)
CalculateRelevance(doc, query_keywords) ==
    LET content == Lower(doc.page_content)
        title == Lower(doc.title)
        title_score == Cardinality({ k \in query_keywords : Contains(title, k) }) * 3
        content_score == Cardinality({ k \in query_keywords : Contains(content, k) })
        source_bonus == IF doc.source = YouthCenterSource THEN 2 ELSE 0
    IN  title_score + content_score + source_bonus

\* a sort that places a document in front of the documents of equal key
InsertBeforeEqualRelevance(sorted, doc, query_keywords) ==
    LET key == CalculateRelevance(doc, query_keywords)
        n == Cardinality({ i \in 1..Len(sorted) :
                             CalculateRelevance(sorted[i], query_keywords) > key })
    IN  SubSeq(sorted, 1, n) \o <<doc>> \o SubSeq(sorted, n + 1, Len(sorted))

\* list.sort(key=calculate_relevance, reverse=True): a stable sort, so a
\* document goes behind every document already placed whose key is not smaller
InsertByRelevance(sorted, doc, query_keywords) ==
    LET key == CalculateRelevance(doc, query_keywords)
        n == Cardinality({ i \in 1..Len(sorted) :
                             CalculateRelevance(sorted[i], query_keywords) >= key })
    IN  SubSeq(sorted, 1, n) \o <<doc>> \o SubSeq(sorted, n + 1, Len(sorted))

RECURSIVE SortByRelevance(_, _, _)
SortByRelevance(rest, sorted, query_keywords) ==
    IF rest = <<>> THEN sorted
    ELSE SortByRelevance(Tail(rest),
                         InsertByRelevance(sorted, Head(rest), query_keywords),
                         query_keywords)

DeduplicateAndRankDocs(ds, q) ==
    IF ds = <<>> THEN <<>>
    ELSE SortByRelevance(DedupLoop(ds, {}, <<>>), <<>>, QueryKeywords(q))

(***************************************************************************)
(* datetime.date: a date is [y, m, d]; NoDate is None.                     *)
(***************************************************************************)
NoDate == [y |-> 0, m |-> 0, d |-> 0]

IsLeap(y) == (y % 4 = 0 /\ y % 100 # 0) \/ y % 400 = 0

DaysInMonth(y, m) ==
    IF m = 2 THEN (IF IsLeap(y) THEN 29 ELSE 28)
    ELSE IF m \in {4, 6, 9, 11} THEN 30 ELSE 31

\* date(y, m, d) raises ValueError unless this holds
ValidDate(y, m, d) ==
    /\ y \in 1..9999
    /\ m \in 1..12
    /\ d \in 1..DaysInMonth(y, m)

RECURSIVE DaysBeforeMonth(_, _)
DaysBeforeMonth(y, m) ==
    IF m <= 1 THEN 0 ELSE DaysBeforeMonth(y, m - 1) + DaysInMonth(y, m - 1)

\* date.toordinal()
Ordinal(dt) ==
    LET y1 == dt.y - 1
    IN  y1 * 365 + (y1 \div 4) - (y1 \div 100) + (y1 \div 400)
        + DaysBeforeMonth(dt.y, dt.m) + dt.d

DateLT(a, b) == Ordinal(a) < Ordinal(b)

(***************************************************************************)
(* Period texts.  A text is a sequence of tokens: a rolling-admission      *)
(* marker, a word, the word N/A, or a date written in one of the three     *)
(* forms the regular expressions of _parse_policy_period recognise:        *)
(*   "ymd4"  YYYY.MM.DD / YYYY-MM-DD / YYYY/MM/DD                          *)
(*   "kor"   YYYY년 M월 D일                                                *)
(*   "ymd2"  YY.MM.DD                                                      *)
(* NonString is a value of the field that is not a str (a JSON number).    *)
(***************************************************************************)
RollingToken == [kind |-> "rolling", form |-> "-", y |-> 0, m |-> 0, d |-> 0]
WordToken == [kind |-> "word", form |-> "-", y |-> 0, m |-> 0, d |-> 0]
NAToken == [kind |-> "na", form |-> "-", y |-> 0, m |-> 0, d |-> 0]
NonStringToken == [kind |-> "nonstr", form |-> "-", y |-> 0, m |-> 0, d |-> 0]

WrittenDates == { <<2024, 6, 14>>, <<2024, 6, 15>>, <<2024, 13, 15>>, <<2050, 6, 15>> }

DateTokens ==
    { [kind |-> "date", form |-> "ymd4", y |-> w[1], m |-> w[2], d |-> w[3]] :
        w \in WrittenDates }
    \cup { [kind |-> "date", form |-> "kor", y |-> w[1], m |-> w[2], d |-> w[3]] :
        w \in WrittenDates }
    \cup { [kind |-> "date", form |-> "ymd2", y |-> w[1] % 100, m |-> w[2], d |-> w[3]] :
        w \in WrittenDates }

Tokens == DateTokens \cup { RollingToken, WordToken, NAToken }

NonString == << NonStringToken >>
NAText == << NAToken >>

PeriodTexts(n) == { NonString } \cup UNION { [1..k -> Tokens] : k \in 0..n }

Todays == { [y |-> 2024, m |-> 6, d |-> 14], [y |-> 2024, m |-> 6, d |-> 15] }

(***************************************************************************)
(* YouthCenterAPIClient._parse_policy_period                               *)
(***************************************************************************)
\* re.findall(date_patterns[p], ...) finds this token: the YY.MM.DD pattern
\* also matches the last two digits of the year of a YYYY.MM.DD date
PatternMatches(p, tok) ==
    /\ tok.kind = "date"
    /\ \/ p = 1 /\ tok.form = "ymd4"
       \/ p = 2 /\ tok.form = "kor"
       \/ p = 3 /\ tok.form \in {"ymd2", "ymd4"}

\* the year after the two-digit conversion
MatchedYear(p, tok) ==
    IF p = 3
    THEN LET yy == tok.y % 100 IN IF yy < 50 THEN 2000 + yy ELSE 1900 + yy
    ELSE tok.y

\* the dates one pattern appends: a match that is no valid date is skipped
RECURSIVE PatternDates(_, _)
PatternDates(p, text) ==
    IF text = <<>> THEN <<>>
    ELSE LET tok == Head(text)
             rest == PatternDates(p, Tail(text))
         IN  IF PatternMatches(p, tok) /\ ValidDate(MatchedYear(p, tok), tok.m, tok.d)
             THEN <<[y |-> MatchedYear(p, tok), m |-> tok.m, d |-> tok.d]>> \o rest
             ELSE rest

\* the collection with an impossible date ending it: nothing is collected
CollectDatesUnlessInvalid(text) ==
    IF \E i \in 1..Len(text) : \E p \in 1..3 :
           /\ PatternMatches(p, text[i])
           /\ ~ValidDate(MatchedYear(p, text[i]), text[i].m, text[i].d)
    THEN <<>>
    ELSE PatternDates(1, text) \o PatternDates(2, text) \o PatternDates(3, text)

CollectDates(text) ==
    PatternDates(1, text) \o PatternDates(2, text) \o PatternDates(3, text)

\* dates.sort(); dates[0] and dates[-1]
EarliestDate(dates) ==
    CHOOSE x \in Range(dates) : \A z \in Range(dates) : Ordinal(x) <= Ordinal(z)

LatestDate(dates) ==
    CHOOSE x \in Range(dates) : \A z \in Range(dates) : Ordinal(z) <= Ordinal(x)

\* the marker test on the beginning of the text only
HasRollingMarkerAtStart(text) == text # <<>> /\ text[1].kind = "rolling"

HasRollingMarker(text) == \E i \in 1..Len(text) : text[i].kind = "rolling"

\* _parse_policy_period without its rolling-admission test
ParsePolicyPeriodIgnoringMarkers(period_text) ==
    IF period_text = NonString THEN <<NoDate, NoDate>>
    ELSE IF period_text = <<>> \/ period_text = NAText THEN <<NoDate, NoDate>>
    ELSE LET dates == CollectDates(period_text)
         IN  IF Len(dates) >= 2 THEN <<EarliestDate(dates), LatestDate(dates)>>
             ELSE IF Len(dates) = 1 THEN <<NoDate, dates[1]>>
             ELSE <<NoDate, NoDate>>

\* returns <<start, end>>; a value that is not a str raises inside the try
\* block and gives (None, None) as well
ParsePolicyPeriod(period_text) ==
    IF period_text = NonString THEN <<NoDate, NoDate>>
    ELSE IF period_text = <<>> \/ period_text = NAText THEN <<NoDate, NoDate>>
    ELSE IF HasRollingMarker(period_text) THEN <<NoDate, NoDate>>
    ELSE LET dates == CollectDates(period_text)
         IN  IF Len(dates) >= 2 THEN <<EarliestDate(dates), LatestDate(dates)>>
             ELSE IF Len(dates) = 1 THEN <<NoDate, dates[1]>>
             ELSE <<NoDate, NoDate>>

(***************************************************************************)
(* Policies of the external catalog.  NonDict is an item of the response   *)
(* that is not a JSON object: policy.get raises AttributeError on it.      *)
(***************************************************************************)
NonDict == [kind |-> "nondict", bizId |-> 0, rqutPrdCn |-> <<>>, bizPrdCn |-> <<>>]

\* bizPrdCn: no text, or one token, a date being written YYYY.MM.DD
BizTexts ==
    { <<>> } \cup { <<t>> : t \in { u \in Tokens : u.kind = "date" => u.form = "ymd4" } }

Policies(n) ==
    { NonDict } \cup
    [kind : {"dict"}, bizId : {1}, rqutPrdCn : PeriodTexts(n), bizPrdCn : BizTexts]

\* a value that cannot be iterated (youthPolicy: null)
NotIterable == [iterable |-> FALSE, items |-> <<>>]

ListOf(items) == [iterable |-> TRUE, items |-> items]

(***************************************************************************)
(* YouthCenterAPIClient._is_policy_expired                                 *)
(***************************************************************************)
\* the try block with `end_date <= today` for `end_date < today`
IsPolicyExpiredTryInclusive(p, now) ==
    IF p.kind # "dict" THEN [raised |-> TRUE, value |-> FALSE]
    ELSE LET app == ParsePolicyPeriod(p.rqutPrdCn)
             biz == ParsePolicyPeriod(p.bizPrdCn)
         IN  IF app[2] # NoDate /\ ~DateLT(now, app[2])
             THEN [raised |-> FALSE, value |-> TRUE]
             ELSE IF p.bizPrdCn # <<>> /\ biz[2] # NoDate /\ ~DateLT(now, biz[2])
             THEN [raised |-> FALSE, value |-> TRUE]
             ELSE [raised |-> FALSE, value |-> FALSE]

\* the try block without the test of the program duration
IsPolicyExpiredTryApplicationOnly(p, now) ==
    IF p.kind # "dict" THEN [raised |-> TRUE, value |-> FALSE]
    ELSE LET app == ParsePolicyPeriod(p.rqutPrdCn)
         IN  IF app[2] # NoDate /\ DateLT(app[2], now)
             THEN [raised |-> FALSE, value |-> TRUE]
             ELSE [raised |-> FALSE, value |-> FALSE]

\* the try block: [raised, value]
IsPolicyExpiredTry(p, now) ==
    IF p.kind # "dict" THEN [raised |-> TRUE, value |-> FALSE]
    ELSE LET app == ParsePolicyPeriod(p.rqutPrdCn)
             biz == ParsePolicyPeriod(p.bizPrdCn)
         IN  IF app[2] # NoDate /\ DateLT(app[2], now)
             THEN [raised |-> FALSE, value |-> TRUE]
             ELSE IF p.bizPrdCn # <<>> /\ biz[2] # NoDate /\ DateLT(biz[2], now)
             THEN [raised |-> FALSE, value |-> TRUE]
             ELSE [raised |-> FALSE, value |-> FALSE]

\* _is_policy_expired with `return True` in its except block
IsPolicyExpiredFailClosed(p, now) ==
    LET r == IsPolicyExpiredTry(p, now)
    IN  IF r.raised THEN TRUE ELSE r.value

IsPolicyExpired(p, now) ==
    LET r == IsPolicyExpiredTry(p, now)
    IN  IF r.raised THEN FALSE ELSE r.value

(***************************************************************************)
(* YouthCenterAPIClient._filter_active_policies                            *)
(***************************************************************************)
RECURSIVE ActiveLoop(_, _)
ActiveLoop(items, now) ==
    IF items = <<>> THEN <<>>
    ELSE IF ~IsPolicyExpired(Head(items), now)
         THEN <<Head(items)>> \o ActiveLoop(Tail(items), now)
         ELSE ActiveLoop(Tail(items), now)

\* _filter_active_policies that appends every policy
FilterKeepingAll(ps, now) == ps

\* iterating a value that is no list raises: the argument is returned as is
FilterActivePolicies(ps, now) ==
    IF ~ps.iterable THEN ps ELSE ListOf(ActiveLoop(ps.items, now))

(***************************************************************************)
(* The external catalog's answer to one request of search_policies:        *)
(*   "http_error"  the request fails (HTTP error, timeout)                 *)
(*   "html"        a payload that is not JSON                              *)
(*   "json"        JSON with the list youthPolicy = items                  *)
(*   "json_null"   JSON with youthPolicy: null                             *)
(*   "json_nokey"  JSON without youthPolicy                                *)
(***************************************************************************)
OpenPolicy == [kind |-> "dict", bizId |-> 1, rqutPrdCn |-> <<>>, bizPrdCn |-> <<>>]

DatedPolicy ==
    [kind |-> "dict", bizId |-> 2,
     rqutPrdCn |-> <<[kind |-> "date", form |-> "ymd2", y |-> 24, m |-> 6, d |-> 14]>>,
     bizPrdCn |-> <<>>]

CatalogPolicies == { OpenPolicy, DatedPolicy, NonDict }

\* the day of the searches: the day after DatedPolicy's application period ended
SearchDay == [y |-> 2024, m |-> 6, d |-> 15]

Response(kind, items) == [kind |-> kind, items |-> items]

Responses ==
    { Response(k, <<>>) : k \in {"http_error", "html", "json_null", "json_nokey"} }
    \cup { Response("json", items) :
             items \in UNION { [1..k -> CatalogPolicies] : k \in 0..MaxPerResponse } }

\* the dict search_policies returns: has_key is `'youthPolicy' in data`
Data(has_key, youthPolicy) == [has_key |-> has_key, youthPolicy |-> youthPolicy]

(***************************************************************************)
(* YouthCenterAPIClient.search_policies: [raised, data]                    *)
(***************************************************************************)
SearchPolicies(response, now) ==
    IF response.kind = "http_error"
    THEN [raised |-> TRUE, data |-> Data(FALSE, NotIterable)]
    ELSE LET data ==
                 IF response.kind = "html" THEN Data(TRUE, ListOf(<<>>))
                 ELSE IF response.kind = "json_null" THEN Data(TRUE, NotIterable)
                 ELSE IF response.kind = "json_nokey" THEN Data(FALSE, NotIterable)
                 ELSE Data(TRUE, ListOf(response.items))
         IN  IF data.has_key /\ data.youthPolicy.iterable
                    /\ data.youthPolicy.items # <<>>
             THEN [raised |-> FALSE,
                   data |-> Data(TRUE, FilterActivePolicies(data.youthPolicy, now))]
             ELSE [raised |-> FALSE, data |-> data]

(***************************************************************************)
(* YouthCenterAPIClient.search_policies_by_keywords                        *)
(***************************************************************************)
\* one pass of the loop body over a keyword: [raised, all_policies]
KeywordPass(response, acc, now) ==
    LET r == SearchPolicies(response, now)
    IN  IF r.raised THEN [raised |-> TRUE, all_policies |-> acc]
        ELSE IF ~r.data.has_key THEN [raised |-> FALSE, all_policies |-> acc]
        ELSE LET active == FilterActivePolicies(r.data.youthPolicy, now)
             IN  IF ~active.iterable
                 THEN [raised |-> TRUE, all_policies |-> acc]
                 ELSE [raised |-> FALSE, all_policies |-> acc \o active.items]

\* the loop over all_policies with seen_ids / unique_policies:
\* [raised, unique_policies]
RECURSIVE UniqueLoop(_, _, _, _)
UniqueLoop(rest, seen_ids, acc, max) ==
    IF rest = <<>> THEN [raised |-> FALSE, unique_policies |-> acc]
    ELSE LET p == Head(rest)
         IN  IF p.kind # "dict" THEN [raised |-> TRUE, unique_policies |-> acc]
             ELSE LET fresh == p.bizId # 0 /\ p.bizId \notin seen_ids
                      acc2 == IF fresh THEN Append(acc, p) ELSE acc
                      seen2 == IF fresh THEN seen_ids \cup {p.bizId} ELSE seen_ids
                  IN  IF Len(acc2) >= max
                      THEN [raised |-> FALSE, unique_policies |-> acc2]
                      ELSE UniqueLoop(Tail(rest), seen2, acc2, max)

\* what is returned once the loop over the keywords is over
Deduplicated(acc, max) ==
    LET u == UniqueLoop(acc, {}, <<>>, max)
    IN  IF u.raised THEN acc ELSE u.unique_policies

SearchIdle ==
    /\ keywords = <<>>
    /\ max_results = 0
    /\ kw_index = 0
    /\ requests = <<>>
    /\ all_policies = <<>>
    /\ result = <<>>

(***************************************************************************)
(* The sources of chat_with_rag.  An answer is what a source gave: "ok"    *)
(* with its items, or "failed" (unreachable, timed out, raised).           *)
(***************************************************************************)
Answer(kind, items) == [kind |-> kind, items |-> items]

Pending == Answer("pending", <<>>)
Failed == Answer("failed", <<>>)

AnswersOver(rows, n) ==
    { Failed } \cup { Answer("ok", items) : items \in UNION { [1..k -> rows] : k \in 0..n } }

\* user_context: region "-" stands for no region given
NoRegion == "-"
RegionWide == "all"
UserContexts == { [region |-> NoRegion], [region |-> "r1"] }

\* rows of the policies table: category is a list or NULL
LocalRows ==
    { [title |-> <<"a">>, category |-> "list"],
      [title |-> <<"b">>, category |-> "list"],
      [title |-> <<"b">>, category |-> "none"] }

\* polyBizSjnm of the policies the external catalog search returned
CatalogTitles == { <<"a">>, <<"b">> }

\* documents of the indexed corpus
RetrieverRows == [title : { <<"a">>, <<"b">> }, region : { RegionWide, "r2" }]

Min(a, b) == IF a <= b THEN a ELSE b

\* s[:n] without the bound: the whole list
TakeAll(s, n) == s

\* s[:n]
Take(s, n) == SubSeq(s, 1, Min(n, Len(s)))

(***************************************************************************)
(* YouthyRAGService.search_local_policies: the rows, or [] on any failure  *)
(***************************************************************************)
SearchLocalPolicies(answer) == IF answer.kind = "ok" THEN answer.items ELSE <<>>

(***************************************************************************)
(* YouthyRAGService._convert_policies_to_docs                              *)
(***************************************************************************)
ConvertPoliciesToDocs(ps) ==
    [i \in 1..Len(ps) |->
        [id |-> i, title |-> ps[i].title, page_content |-> ps[i].title,
         source |-> OtherSource, region |-> RegionWide, category |-> ps[i].category]]

(***************************************************************************)
(* YouthyRAGService._retrieve_relevant_policies                            *)
(***************************************************************************)
\* what step 1 can meet: the search fails, it returns policies, or it returns
\* policies and building the document after the last of `items` raises
CatalogAnswers ==
    AnswersOver(CatalogTitles, MaxSourceDocs)
    \cup { Answer("partial", items) :
               items \in UNION { [1..k -> CatalogTitles] : k \in 1..MaxSourceDocs } }

\* step 1: the documents appended to all_docs before the step ended
YouthCenterDocs(answer, ctx) ==
    IF answer.kind = "failed" THEN <<>>
    ELSE [i \in 1..Len(answer.items) |->
            [id |-> 10 + i, title |-> answer.items[i], page_content |-> answer.items[i],
             source |-> YouthCenterSource,
             region |-> IF ctx.region = NoRegion THEN "nationwide" ELSE ctx.region,
             category |-> "list"]]

RetrieverDocs(answer) ==
    [i \in 1..Len(answer.items) |->
        [id |-> 20 + i, title |-> answer.items[i].title,
         page_content |-> answer.items[i].title, source |-> OtherSource,
         region |-> answer.items[i].region, category |-> "list"]]

\* _filter_docs_by_user_context
RECURSIVE FilterDocsByUserContext(_, _)
FilterDocsByUserContext(ds, ctx) ==
    IF ds = <<>> THEN <<>>
    ELSE LET d == Head(ds)
             rest == FilterDocsByUserContext(Tail(ds), ctx)
         IN  IF ctx.region # NoRegion /\ d.region # RegionWide /\ d.region # ctx.region
             THEN rest
             ELSE <<d>> \o rest

\* step 2 with a failure of the retriever discarding what step 1 collected
AllDocsLostOnRetrieverFailure(all_docs, answer, ctx) ==
    IF answer.kind # "ok" THEN <<>>
    ELSE all_docs \o FilterDocsByUserContext(RetrieverDocs(answer), ctx)

\* step 2: all_docs after the hybrid retriever; a failure leaves all_docs as it was
AllDocsAfterRetriever(all_docs, answer, ctx) ==
    IF answer.kind # "ok" THEN all_docs
    ELSE all_docs \o FilterDocsByUserContext(RetrieverDocs(answer), ctx)

(***************************************************************************)
(* YouthyRAGService._build_context_from_docs: [raised, context].  Joining  *)
(* the category of a row whose category is NULL raises TypeError.          *)
(***************************************************************************)
SentinelContext == [kind |-> "sentinel", blocks |-> <<>>]

\* _build_context_from_docs without `if not docs`: the join of no parts
BuildContextWithoutGuard(ds) ==
    IF \E i \in 1..Len(ds) : ds[i].category = "none"
    THEN [raised |-> TRUE, context |-> SentinelContext]
    ELSE [raised |-> FALSE,
          context |-> [kind |-> "policies",
                       blocks |-> [i \in 1..Len(ds) |-> [n |-> i, title |-> ds[i].title]]]]

BuildContextFromDocs(ds) ==
    IF ds = <<>> THEN [raised |-> FALSE, context |-> SentinelContext]
    ELSE IF \E i \in 1..Len(ds) : ds[i].category = "none"
    THEN [raised |-> TRUE, context |-> SentinelContext]
    ELSE [raised |-> FALSE,
          context |-> [kind |-> "policies",
                       blocks |-> [i \in 1..Len(ds) |-> [n |-> i, title |-> ds[i].title]]]]

(***************************************************************************)
(* YouthyRAGService._extract_references_from_docs                          *)
(***************************************************************************)
SnippetMax == 200

Ellipsis == <<".", ".", ".">>

\* str.replace('\n', ' ')
ReplaceNewlines(s) == [i \in 1..Len(s) |-> IF s[i] = "\n" THEN " " ELSE s[i]]

\* doc.page_content[:200].replace('\n', ' ').strip()
SnippetBody(body) == Strip(ReplaceNewlines(Take(body, SnippetMax)))

\* the snippet with the ellipsis from 200 characters on
SnippetEllipsisFromMax(body) ==
    SnippetBody(body) \o (IF Len(body) >= SnippetMax THEN Ellipsis ELSE <<>>)

\* snippet
Snippet(body) ==
    SnippetBody(body) \o (IF Len(body) > SnippetMax THEN Ellipsis ELSE <<>>)

ExtractReferencesFromDocs(ds) ==
    [i \in 1..Len(ds) |->
        [id |-> i, title |-> ds[i].title, snippet |-> Snippet(ds[i].page_content)]]

(***************************************************************************)
(* The responses of chat_with_rag: the keys of the returned dict, the      *)
(* answer and the references.                                              *)
(***************************************************************************)
NoResponse == [keys |-> {}, answer |-> "", references |-> <<>>]

\* _generate_template_response
GenerateTemplateResponse ==
    [keys |-> {"answer", "references", "confidence_score"},
     answer |-> "template", references |-> <<>>]

\* _generate_fallback_response
GenerateFallbackResponse ==
    [keys |-> {"answer", "references", "confidence_score", "model_used"},
     answer |-> "fallback", references |-> <<>>]

\* _generate_with_openai: the text, or its error message when the call fails
GenerateWithOpenAI(outcome) ==
    IF outcome = "ok" THEN "generated" ELSE "openai_error_message"

\* steps 3 to 5 of the try block of chat_with_rag: [raised, response]
ChatTry(relevant, outcome) ==
    IF BuildContextFromDocs(relevant).raised
    THEN [raised |-> TRUE, response |-> NoResponse]
    ELSE [raised |-> FALSE,
          response |-> [keys |-> {"answer", "references", "confidence_score",
                                  "context_used", "model_used", "cache_used"},
                        answer |-> GenerateWithOpenAI(outcome),
                        references |-> ExtractReferencesFromDocs(relevant)]]

\* chat_with_rag without its except block
ChatPropagating(relevant, outcome) == ChatTry(relevant, outcome)

\* the try block with its except block: the fallback response
ChatGuarded(relevant, outcome) ==
    LET t == ChatTry(relevant, outcome)
    IN  IF t.raised THEN [raised |-> FALSE, response |-> GenerateFallbackResponse]
        ELSE t

(***************************************************************************)
(* server.py: fetch_seoul_api_data and the merge of get_real_policy_data   *)
(***************************************************************************)
\* a row of an endpoint; score is ten times the relevance the row has for
\* the query (calculate_relevance_score)
Row(i, score) == [endpoint |-> i, score |-> score]

EndpointAnswers(i) ==
    { Answer(k, <<>>) : k \in {"timeout", "error", "http_status", "bad_structure", "ok"} }
    \cup { Answer("ok", <<Row(i, score)>>) : score \in {0, 5, 10} }

\* the rows on HTTP 200 with the expected structure, [] otherwise
FetchSeoulApiData(answer) == IF answer.kind = "ok" THEN answer.items ELSE <<>>

RECURSIVE MergeResults(_, _)
MergeResults(results, i) ==
    IF i > NumEndpoints THEN <<>> ELSE results[i] \o MergeResults(results, i + 1)

\* get_fallback_policy_data: the built-in policies, endpoint 0
FallbackPolicyData == <<Row(0, 10), Row(0, 0)>>

\* the merge with the substitution of the built-in data when nothing came
AllPoliciesAfterMerge(results) ==
    IF MergeResults(results, 1) = <<>> THEN FallbackPolicyData
    ELSE MergeResults(results, 1)

\* filter_policies_by_query: rows scoring above 0.1, by decreasing score
RECURSIVE InsertByScore(_, _)
InsertByScore(row, sorted) ==
    IF sorted = <<>> THEN <<row>>
    ELSE IF Head(sorted).score > row.score
         THEN <<Head(sorted)>> \o InsertByScore(row, Tail(sorted))
         ELSE <<row>> \o sorted

RECURSIVE FilterPoliciesByQuery(_)
FilterPoliciesByQuery(rows) ==
    IF rows = <<>> THEN <<>>
    ELSE LET rest == FilterPoliciesByQuery(Tail(rows))
         IN  IF Head(rows).score > RelevanceThreshold
             THEN InsertByScore(Head(rows), rest)
             ELSE rest

\* normalize_policy_data
NormalizePolicyData(row) ==
    [title |-> <<"endpoint", row.endpoint>>, relevance |-> row.score]

StructuredPolicies(rows) ==
    LET kept == Take(FilterPoliciesByQuery(rows), RealCap)
    IN  [i \in 1..Len(kept) |-> NormalizePolicyData(kept[i])]

ChatIdle ==
    /\ openai_client = FALSE
    /\ retriever = FALSE
    /\ user_context = [region |-> NoRegion]
    /\ store_answer = Pending
    /\ local_policies = <<>>
    /\ youthcenter_answer = Pending
    /\ retriever_answer = Pending
    /\ external_docs = <<>>
    /\ relevant_docs = <<>>
    /\ chat_response = NoResponse
    /\ chat_raised = FALSE

RealIdle ==
    /\ api_results = <<>>
    /\ endpoint_answers = <<>>
    /\ real_policies = <<>>
    /\ structured_policies = <<>>

(***************************************************************************)
(* Specification of the ranker: any list of documents and any query.       *)
(***************************************************************************)
(***************************************************************************)
(* The formatting of the policies a search returned:                       *)
(*   api/llm_chat.py get_policies_by_category, the loop over policies      *)
(*   YouthCenterAPIClient.format_policy_for_llm                            *)
(* Both read date.today() again, after the search has filtered.            *)
(***************************************************************************)
\* the days on which a search runs
FormatDays ==
    { [y |-> 2024, m |-> 6, d |-> 4], [y |-> 2024, m |-> 6, d |-> 14],
      [y |-> 2024, m |-> 6, d |-> 15] }

\* the day after
NextDay(dt) ==
    IF dt.d < DaysInMonth(dt.y, dt.m) THEN [dt EXCEPT !.d = dt.d + 1]
    ELSE IF dt.m < 12 THEN [y |-> dt.y, m |-> dt.m + 1, d |-> 1]
    ELSE [y |-> dt.y + 1, m |-> 1, d |-> 1]

FormatPolicies ==
    { NonDict } \cup
    [kind : {"dict"}, bizId : {1}, rqutPrdCn : PeriodTexts(MaxFormatTokens),
     bizPrdCn : BizTexts]

\* remaining_days: None, or a number of days
NoDays == [known |-> FALSE, days |-> 0]
Days(n) == [known |-> TRUE, days |-> n]

\* (end_date - date.today()).days
DaysUntil(end, now) == Ordinal(end) - Ordinal(now)

\* period_status of get_policies_by_category for a known end date
PeriodStatus(remaining_days) ==
    IF remaining_days < 0 THEN "expired"
    ELSE IF remaining_days = 0 THEN "closes_today"
    ELSE IF remaining_days <= SoonDays THEN "closing_soon"
    ELSE "days_remaining"

\* one pass of the loop of get_policies_by_category: [raised, value].
\* policy.get raises on an item that is no dict; with no end date the test
\* `keyword in application_period` raises on a field that is no text.
FormatPolicyTry(p, now) ==
    IF p.kind # "dict" \/ (p.rqutPrdCn = NonString)
    THEN [raised |-> TRUE,
          value |-> [is_expired |-> FALSE, remaining_days |-> NoDays,
                     period_status |-> "-", start_date |-> NoDate, end_date |-> NoDate]]
    ELSE LET period == ParsePolicyPeriod(p.rqutPrdCn)
             end == period[2]
         IN  [raised |-> FALSE,
              value |-> [is_expired |-> IsPolicyExpired(p, now),
                         remaining_days |->
                             IF end # NoDate THEN Days(DaysUntil(end, now)) ELSE NoDays,
                         period_status |->
                             IF end # NoDate THEN PeriodStatus(DaysUntil(end, now))
                             ELSE IF HasRollingMarker(p.rqutPrdCn) THEN "rolling"
                             ELSE "in_progress",
                         start_date |-> period[1],
                         end_date |-> end]]

\* the loop: the first pass that raises ends the handler with HTTP 500
RECURSIVE FormatLoop(_, _)
FormatLoop(items, now) ==
    IF items = <<>> THEN [raised |-> FALSE, policies |-> <<>>]
    ELSE LET f == FormatPolicyTry(Head(items), now)
             rest == FormatLoop(Tail(items), now)
         IN  IF f.raised \/ rest.raised THEN [raised |-> TRUE, policies |-> <<>>]
             ELSE [raised |-> FALSE, policies |-> <<f.value>> \o rest.policies]

NoFormat == [raised |-> FALSE, status_text |-> "-", remaining_days |-> NoDays,
             period_info |-> "-"]

\* format_policy_for_llm: the state line and what is appended to the period.
\* On an item that is no dict the except block raises again.
FormatPolicyForLLM(p, now) ==
    IF p.kind # "dict" THEN [NoFormat EXCEPT !.raised = TRUE]
    ELSE LET end == ParsePolicyPeriod(p.rqutPrdCn)[2]
         IN  [raised |-> FALSE,
              status_text |-> IF IsPolicyExpired(p, now) THEN "expired" ELSE "in_progress",
              remaining_days |->
                  IF end # NoDate THEN Days(DaysUntil(end, now)) ELSE NoDays,
              period_info |->
                  IF end = NoDate THEN "text"
                  ELSE IF DaysUntil(end, now) > 0 THEN "text_until_deadline"
                  ELSE IF DaysUntil(end, now) = 0 THEN "text_closes_today"
                  ELSE "text"]

FormatIdle ==
    /\ format_day = NoDate
    /\ formatted_policies = [raised |-> FALSE, policies |-> <<>>]
    /\ llm_format = NoFormat

(***************************************************************************)
(* data_ingestion/pipeline.py: the validity period and the status of a     *)
(* normalized record.                                                      *)
(***************************************************************************)
\* a date field of raw_data: absent, a 'YYYY-MM-DD' text, or another text
Absent == [kind |-> "absent", date |-> NoDate]
Malformed == [kind |-> "malformed", date |-> NoDate]
IsoDate(dt) == [kind |-> "date", date |-> dt]

PipelineDates ==
    { [y |-> 2025, m |-> 6, d |-> 10], [y |-> 2025, m |-> 6, d |-> 15],
      [y |-> 2025, m |-> 6, d |-> 20] }

RawDateFields == { Absent, Malformed } \cup { IsoDate(dt) : dt \in PipelineDates }

\* datetime.now().date()
PipelineDays ==
    { [y |-> 2024, m |-> 12, d |-> 31], [y |-> 2025, m |-> 6, d |-> 15],
      [y |-> 2025, m |-> 6, d |-> 16], [y |-> 2026, m |-> 1, d |-> 5] }

DefaultStart == [y |-> 2025, m |-> 1, d |-> 1]
DefaultEnd == [y |-> 2025, m |-> 12, d |-> 31]

\* _extract_validity_period: strptime raises on a malformed text and the
\* bare except returns both defaults
ExtractValidityPeriod(raw) ==
    IF raw.start.kind = "malformed" THEN <<DefaultStart, DefaultEnd>>
    ELSE IF raw.end.kind = "malformed" THEN <<DefaultStart, DefaultEnd>>
    ELSE <<IF raw.start.kind = "date" THEN raw.start.date ELSE DefaultStart,
           IF raw.end.kind = "date" THEN raw.end.date ELSE DefaultEnd>>

\* _determine_policy_status
DeterminePolicyStatus(from, to, now) ==
    IF DateLT(now, from) THEN "upcoming"
    ELSE IF DateLT(to, now) THEN "closed"
    ELSE "open"

PipelineIdle ==
    /\ raw_data = [start |-> Absent, end |-> Absent]
    /\ valid_from = NoDate
    /\ valid_to = NoDate
    /\ status = "-"

(***************************************************************************)
(* services/youthcenter_api.py: the category taxonomy, the category search *)
(* and the classifier.  A text is the sequence of its syllables, written   *)
(* in Latin letters; " " is a space.  The categories, in the order of      *)
(* their declaration: chwieop (employment), changeop (startup), jugeo      *)
(* (housing), gyoyuk (education), bokji (welfare), munhwa/yesul (culture   *)
(* and arts), chamyeogwolli (participation and rights), gita (others).     *)
(***************************************************************************)
CategoryOrder ==
    << "chwieop", "changeop", "jugeo", "gyoyuk", "bokji", "munhwa/yesul",
       "chamyeogwolli", "gita" >>

Others == "gita"

\* POLICY_CATEGORIES as declared: one keyword list per category
PolicyCategories ==
    [c \in Range(CategoryOrder) |->
        CASE
           c = "chwieop" ->
            << <<"chwi", "eop">>,
               <<"il", "ja", "ri">>,
               <<"chae", "yong">>,
               <<"gu", "jik">>,
               <<"in", "teon">>,
               <<"gu", "jik", "hwal", "dong">> >>
        [] c = "changeop" ->
            << <<"chang", "eop">>,
               <<"seu", "ta", "teu", "eop">>,
               <<"sa", "eop">>,
               <<"gi", "eop">>,
               <<"ben", "cheo">> >>
        [] c = "jugeo" ->
            << <<"ju", "geo">>,
               <<"wol", "se">>,
               <<"jeon", "se">>,
               <<"im", "dae">>,
               <<"ju", "taek">>,
               <<"geo", "ju">> >>
        [] c = "gyoyuk" ->
            << <<"gyo", "yuk">>,
               <<"hak", "seup">>,
               <<"gang", "ui">>,
               <<"yeon", "su">>,
               <<"hun", "ryeon">>,
               <<"seu", "kil">> >>
        [] c = "bokji" ->
            << <<"bok", "ji">>,
               <<"ji", "won", "geum">>,
               <<"su", "dang">>,
               <<"geup", "yeo">>,
               <<"saeng", "hwal", "bi">>,
               <<"ui", "ryo">> >>
        [] c = "munhwa/yesul" ->
            << <<"mun", "hwa">>,
               <<"ye", "sul">>,
               <<"gong", "yeon">>,
               <<"jeon", "si">>,
               <<"chuk", "je">>,
               <<"che", "heom">> >>
        [] c = "chamyeogwolli" ->
            << <<"cham", "yeo">>,
               <<"gwon", "ri">>,
               <<"jeong", "chi">>,
               <<"si", "min">>,
               <<"bong", "sa">>,
               <<"hwal", "dong">> >>
        [] c = "gita" ->
            << <<"gi", "ta">>,
               <<"jong", "hap">>,
               <<"tong", "hap">>,
               <<"il", "ban">> >>]

\* the keywords a user context adds
RegionWord == <<"ji", "yeok">>
Student == <<"dae", "hak", "saeng">>
Youth == <<"cheong", "nyeon">>
Newcomer == <<"sa", "hoe", "cho", "nyeon", "saeng">>
Worker == <<"jik", "jang", "in">>

NoContext == [region |-> "-", age |-> 0]
Regions == { "-", "gangnam" }
Ages == { 0, 24, 29, 34, 35 }
CategoryContexts == [region : Regions, age : Ages]
RegionText(region) == <<"gang", "nam">>

UnknownCategory == "eopneun"
SearchedCategories == { "chwieop", "gita", UnknownCategory }

\* the two places that hold a client: the module's youthcenter_client and the
\* client get_policies_by_category constructs; POLICY_CATEGORIES is an
\* attribute of the class, so both read and write the same dict
Clients == { "youthcenter_client", "endpoint_client" }

AgeKeywords(age) ==
    IF age = 0 THEN <<>>
    ELSE IF age <= 24 THEN <<Student, Youth>>
    ELSE IF age <= 29 THEN <<Youth, Newcomer>>
    ELSE IF age <= 34 THEN <<Youth, Worker>>
    ELSE <<>>

\* search_policies_by_category up to the search: keywords is the list the
\* dict holds, and keywords.extend changes it in place
ExtendKeywords(tax, wanted, ctx) ==
    LET c == IF wanted \in DOMAIN tax THEN wanted ELSE Others
        withRegion == IF ctx # NoContext /\ ctx.region # "-"
                      THEN tax[c] \o <<RegionText(ctx.region), RegionWord>>
                      ELSE tax[c]
        withAge == IF ctx # NoContext THEN withRegion \o AgeKeywords(ctx.age)
                   ELSE withRegion
    IN  [matched_category |-> c, taxonomy |-> [tax EXCEPT ![c] = withAge]]

\* a field of a policy that is not a string (None)
NonText == << "<None>" >>

ClassifiedTitles ==
    { <<>>,
      <<"cheong", "nyeon", "chang", "eop">>,
      <<"gu", "jik", "hwal", "dong">>,
      <<"cheong", "nyeon", " ", "ju", "geo">>,
      <<"ji", "yeok", " ", "chuk", "je">> }
ClassifiedContents ==
    { <<>>, <<"chwi", "eop", " ", "gyo", "yuk">>, NonText }
ClassifiedTargets == { <<>>, Student }
ClassifiedPolicies ==
    [polyBizSjnm : ClassifiedTitles, sporCn : ClassifiedContents,
     sporTarget : ClassifiedTargets]

\* text_to_analyze
TextToAnalyze(p) ==
    Lower(p.polyBizSjnm) \o <<" ">> \o Lower(p.sporCn) \o <<" ">> \o Lower(p.sporTarget)

\* the loop over the keywords of one category
RECURSIVE KeywordScore(_, _, _)
KeywordScore(kws, title, text) ==
    IF kws = <<>> THEN 0
    ELSE (IF Contains(title, Head(kws)) THEN 3
          ELSE IF Contains(text, Head(kws)) THEN 1
          ELSE 0) + KeywordScore(Tail(kws), title, text)

\* category_scores
CategoryScores(p, tax) ==
    [c \in DOMAIN tax |-> KeywordScore(tax[c], Lower(p.polyBizSjnm), TextToAnalyze(p))]

\* max(category_scores, key=category_scores.get) kept the other way round:
\* a later key replaces the best one when its score is equal
RECURSIVE MaxByScoreLast(_, _, _)
MaxByScoreLast(order, scores, best) ==
    IF order = <<>> THEN best
    ELSE MaxByScoreLast(Tail(order), scores,
            IF scores[Head(order)] >= scores[best] THEN Head(order) ELSE best)

\* max(category_scores, key=category_scores.get): the keys in insertion
\* order, a later key replaces the best one only when its score is greater
RECURSIVE MaxByScore(_, _, _)
MaxByScore(order, scores, best) ==
    IF order = <<>> THEN best
    ELSE MaxByScore(Tail(order), scores,
            IF scores[Head(order)] > scores[best] THEN Head(order) ELSE best)

\* classify_policy_category: .lower() of None raises and the handler
\* answers the catch-all category
ClassifyPolicyCategory(p, tax) ==
    IF NonText \in {p.polyBizSjnm, p.sporCn, p.sporTarget} THEN Others
    ELSE LET scores == CategoryScores(p, tax)
             best == MaxByScore(Tail(CategoryOrder), scores, Head(CategoryOrder))
         IN  IF scores[best] = 0 THEN Others ELSE best

NotClassified == "-"

CategoryIdle ==
    /\ taxonomy = PolicyCategories
    /\ classified_policy = [polyBizSjnm |-> <<>>, sporCn |-> <<>>, sporTarget |-> <<>>]
    /\ first_category = NotClassified
    /\ category = NotClassified
    /\ matched_category = NotClassified
    /\ searches = 0

(***************************************************************************)
(* YouthyRAGService.search_local_policies against the policies table.      *)
(***************************************************************************)
NoPool == "None"
Pool == "pool"

\* rows of the policies table, in updated_at DESC order: hit says where the
\* query text occurs in the row
TableRows ==
    { [hit |-> "title", region |-> RegionWide, status |-> "open"],
      [hit |-> "body", region |-> "r1", status |-> "open"],
      [hit |-> "none", region |-> "r2", status |-> "open"],
      [hit |-> "title", region |-> "r1", status |-> "closed"] }

LocalQueries == { <<>>, <<" ">>, <<"q">> }

\* what the database can do to one call
DbFaults == [acquire : {"ok", "fails"}, fetch : {"ok", "fails"}]

\* the SELECT of search_local_policies without its LIMIT: WHERE, then
\* ORDER BY title hit first, updated_at DESC
SelectPolicies(table, q, ctx) ==
    LET Where(r) ==
            /\ r.status = "open"
            /\ Strip(q) # <<>> => r.hit # "none"
            /\ ctx.region # NoRegion => r.region \in {RegionWide, ctx.region}
        matching == SelectSeq(table, Where)
        InTitle(r) == r.hit = "title"
        Elsewhere(r) == r.hit # "title"
    IN  SelectSeq(matching, InTitle) \o SelectSeq(matching, Elsewhere)

\* the body of the try block: [raised, policies].  ORDER BY names $1, so
\* conn.fetch raises when the call binds no parameter at all
LocalSearchTry(pool, faults, table, q, ctx, n) ==
    IF pool = NoPool THEN [raised |-> FALSE, policies |-> <<>>]
    ELSE IF faults.acquire = "fails" THEN [raised |-> TRUE, policies |-> <<>>]
    ELSE IF faults.fetch = "fails" THEN [raised |-> TRUE, policies |-> <<>>]
    ELSE IF Strip(q) = <<>> /\ ctx.region = NoRegion
         THEN [raised |-> TRUE, policies |-> <<>>]
    ELSE [raised |-> FALSE, policies |-> Take(SelectPolicies(table, q, ctx), n)]

\* search_local_policies without its except clause
LocalSearchPropagating(pool, faults, table, q, ctx, n) ==
    LocalSearchTry(pool, faults, table, q, ctx, n)

\* search_local_policies: except Exception returns []
LocalSearchGuarded(pool, faults, table, q, ctx, n) ==
    [raised |-> FALSE, policies |-> LocalSearchTry(pool, faults, table, q, ctx, n).policies]

NotSearched == [raised |-> FALSE, policies |-> << "-" >>]

LocalIdle ==
    /\ connection_pool = NoPool
    /\ policies_table = <<>>
    /\ db_faults = [acquire |-> "ok", fetch |-> "ok"]
    /\ local_query = <<>>
    /\ local_context = [region |-> NoRegion]
    /\ local_limit = 0
    /\ local_result = NotSearched

(***************************************************************************)
(* The RAG service singleton and its retriever: get_rag_service,           *)
(* setup_retriever, initialize_rag_system.                                 *)
(***************************************************************************)
NoRetriever == [kind |-> "None", corpus |-> 0]
Bm25Retriever(n) == [kind |-> "bm25", corpus |-> n]
EnsembleRetriever(n) == [kind |-> "ensemble", corpus |-> n]

\* _rag_service = None
NoService == [created |-> FALSE, embeddings |-> "None", retriever |-> NoRetriever]

\* YouthyRAGService(): _setup_embeddings loads the model or leaves None,
\* and retriever starts as None
NewService(embeddings) ==
    [created |-> TRUE, embeddings |-> embeddings, retriever |-> NoRetriever]

Embeddings == { "None", "bge-m3" }

\* get_rag_service
GetRagService(service, embeddings) ==
    IF service.created THEN service ELSE NewService(embeddings)

\* what one call of setup_retriever meets: the number of documents loaded,
\* whether BM25Retriever.from_documents and PGVector(...) raise
SetupConditions(n) == [documents : 0..n, bm25 : {"ok", "fails"}, pgvector : {"ok", "fails"}]

NoSetup == [documents |-> 0, bm25 |-> "-", pgvector |-> "-"]

\* setup_retriever with a handler that clears the retriever
SetupRetrieverClearing(service, c) ==
    IF c.documents = 0 THEN service
    ELSE IF c.bm25 = "fails" THEN [service EXCEPT !.retriever = NoRetriever]
    ELSE IF service.embeddings # "None"
         THEN IF c.pgvector = "fails" THEN [service EXCEPT !.retriever = NoRetriever]
              ELSE [service EXCEPT !.retriever = EnsembleRetriever(c.documents)]
    ELSE [service EXCEPT !.retriever = Bm25Retriever(c.documents)]

\* setup_retriever: the early return and the except clause leave
\* self.retriever as it was
SetupRetriever(service, c) ==
    IF c.documents = 0 THEN service
    ELSE IF c.bm25 = "fails" THEN service
    ELSE IF service.embeddings # "None"
         THEN IF c.pgvector = "fails" THEN service
              ELSE [service EXCEPT !.retriever = EnsembleRetriever(c.documents)]
    ELSE [service EXCEPT !.retriever = Bm25Retriever(c.documents)]

RetrieverIdle ==
    /\ rag_service = NoService
    /\ last_setup = NoSetup
    /\ setups = 0

(***************************************************************************)
(* The documents handed to _build_context_from_docs and                    *)
(* _extract_references_from_docs.                                          *)
(***************************************************************************)
Fill(n, ch) == [i \in 1..n |-> ch]

\* page_content: short, around 200 characters, long, with whitespace and
\* line breaks at the ends and inside
Bodies ==
    { <<>>,
      <<"a", "\n", "b">>,
      Fill(199, "x"),
      Fill(200, "x"),
      Fill(201, "x"),
      Fill(400, "x"),
      <<" ">> \o Fill(199, "x") \o <<"\n">>,
      Fill(201, " ") }

AssembledDocs ==
    [title : {<<"a">>}, category : {"list", "none"}, page_content : Bodies]

NotBuilt == [raised |-> FALSE, context |-> [kind |-> "-", blocks |-> <<>>]]

AssembleIdle ==
    /\ assembled_docs = <<>>
    /\ built_context = NotBuilt
    /\ references = <<>>

(***************************************************************************)
(* core/database.py: init_db, get_db_connection, get_db_transaction.  The  *)
(* requests run on one event loop: a step runs from one await that         *)
(* suspends to the next.                                                   *)
(***************************************************************************)
\* the pools asyncpg.create_pool returns, in the order of their creation
PoolNames == << Pool, "pool2", "pool3", "pool4", "pool5" >>

NotCalled == [at |-> "idle", via |-> "-"]
Entries == { "get_db_connection", "get_db_transaction" }

\* `if not _connection_pool: await init_db()` up to the suspension inside
\* asyncpg.create_pool, or on to the acquire when a pool exists
EnterGetDb(pool, entry) ==
    IF pool = NoPool THEN [at |-> "create_pool", via |-> entry]
    ELSE [at |-> "acquire", via |-> entry]

PoolIdle ==
    /\ request_pc = <<>>
    /\ created_pools = {}

RankIdle == docs = <<>> /\ query = <<>> /\ unique_docs = <<>>

ExpiryIdle ==
    /\ policy = NonDict
    /\ policies = NotIterable
    /\ start_date = NoDate
    /\ end_date = NoDate
    /\ is_expired = FALSE
    /\ active_policies = NotIterable

RankInit ==
    /\ pc = "rank_collect"
    /\ docs = <<>>
    /\ query \in Queries
    /\ unique_docs = <<>>
    /\ today = NoDate
    /\ ExpiryIdle
    /\ SearchIdle
    /\ ChatIdle
    /\ RealIdle
    /\ FormatIdle
    /\ PoolIdle
    /\ AssembleIdle
    /\ RetrieverIdle
    /\ LocalIdle
    /\ CategoryIdle
    /\ PipelineIdle

\* all_docs.append(doc): one more candidate reaches the ranker
AddDoc ==
    /\ pc = "rank_collect"
    /\ Len(docs) < MaxDocs
    /\ \E shape \in DocShapes : docs' = Append(docs, DocAt(Len(docs) + 1, shape))
    /\ UNCHANGED <<pc, query, unique_docs, today>>
    /\ UNCHANGED <<expiryVars, searchVars, chatVars, realVars, formatVars, pipelineVars, categoryVars, localVars, retrieverVars, assembleVars, poolVars>>

\* _deduplicate_and_rank_docs(docs, query)
Rank ==
    /\ pc = "rank_collect"
    /\ unique_docs' = DeduplicateAndRankDocs(docs, query)
    /\ pc' = "rank_done"
    /\ UNCHANGED <<docs, query, today>>
    /\ UNCHANGED <<expiryVars, searchVars, chatVars, realVars, formatVars, pipelineVars, categoryVars, localVars, retrieverVars, assembleVars, poolVars>>

RankNext == AddDoc \/ Rank

SpecRank == RankInit /\ [][RankNext]_vars

(***************************************************************************)
(* Specification of the expiry classifier and the temporal filter: any     *)
(* policy, on any of the days, classified and then filtered.               *)
(***************************************************************************)
ExpiryInit ==
    /\ pc = "exp_start"
    /\ RankIdle
    /\ today \in Todays
    /\ policy \in Policies(MaxTokens)
    /\ policies \in { ListOf(<<policy>>), NotIterable }
    /\ start_date = NoDate
    /\ end_date = NoDate
    /\ is_expired = FALSE
    /\ active_policies = NotIterable
    /\ SearchIdle
    /\ ChatIdle
    /\ RealIdle
    /\ FormatIdle
    /\ PoolIdle
    /\ AssembleIdle
    /\ RetrieverIdle
    /\ LocalIdle
    /\ CategoryIdle
    /\ PipelineIdle

\* _is_policy_expired(policy)
Classify ==
    /\ pc = "exp_start"
    /\ start_date' = ParsePolicyPeriod(policy.rqutPrdCn)[1]
    /\ end_date' = ParsePolicyPeriod(policy.rqutPrdCn)[2]
    /\ is_expired' = IsPolicyExpired(policy, today)
    /\ pc' = "exp_classified"
    /\ UNCHANGED <<today, policy, policies, active_policies>>
    /\ UNCHANGED <<rankVars, searchVars, chatVars, realVars, formatVars, pipelineVars, categoryVars, localVars, retrieverVars, assembleVars, poolVars>>

\* _filter_active_policies(policies)
Filter ==
    /\ pc = "exp_classified"
    /\ active_policies' = FilterActivePolicies(policies, today)
    /\ pc' = "exp_filtered"
    /\ UNCHANGED <<today, policy, policies, start_date, end_date, is_expired>>
    /\ UNCHANGED <<rankVars, searchVars, chatVars, realVars, formatVars, pipelineVars, categoryVars, localVars, retrieverVars, assembleVars, poolVars>>

ExpiryNext == Classify \/ Filter

SpecExpiry == ExpiryInit /\ [][ExpiryNext]_vars

(***************************************************************************)
(* Specification of search_policies_by_keywords: any keyword list, any     *)
(* answer of the catalog to each request.                                  *)
(***************************************************************************)
SearchInit ==
    /\ pc = "kw_loop"
    /\ RankIdle
    /\ ExpiryIdle
    /\ ChatIdle
    /\ RealIdle
    /\ FormatIdle
    /\ PoolIdle
    /\ AssembleIdle
    /\ RetrieverIdle
    /\ LocalIdle
    /\ CategoryIdle
    /\ PipelineIdle
    /\ today = SearchDay
    /\ keywords \in { [i \in 1..n |-> i] : n \in 0..MaxKeywords }
    /\ max_results \in {1, 2}
    /\ kw_index = 1
    /\ requests = <<>>
    /\ all_policies = <<>>
    /\ result = <<>>

\* one pass of `for keyword in keywords`: the request, the filter, the extend
KeywordStep ==
    /\ pc = "kw_loop"
    /\ kw_index <= Len(keywords)
    /\ \E response \in Responses :
          LET r == KeywordPass(response, all_policies, today)
          IN  /\ requests' = Append(requests, response)
              /\ all_policies' = r.all_policies
              /\ IF r.raised
                 THEN /\ result' = all_policies
                      /\ pc' = "kw_done"
                      /\ UNCHANGED kw_index
                 ELSE /\ kw_index' = kw_index + 1
                      /\ UNCHANGED <<pc, result>>
    /\ UNCHANGED <<today, keywords, max_results>>
    /\ UNCHANGED <<rankVars, expiryVars, chatVars, realVars, formatVars, pipelineVars, categoryVars, localVars, retrieverVars, assembleVars, poolVars>>

\* the loop is over: deduplicate, truncate, return
KeywordsDone ==
    /\ pc = "kw_loop"
    /\ kw_index > Len(keywords)
    /\ result' = Deduplicated(all_policies, max_results)
    /\ pc' = "kw_done"
    /\ UNCHANGED <<today, keywords, max_results, kw_index, requests, all_policies>>
    /\ UNCHANGED <<rankVars, expiryVars, chatVars, realVars, formatVars, pipelineVars, categoryVars, localVars, retrieverVars, assembleVars, poolVars>>

SearchNext == KeywordStep \/ KeywordsDone

SpecSearch == SearchInit /\ [][SearchNext]_vars

(***************************************************************************)
(* Specification of the service: one call of chat_with_rag with any answer *)
(* of the local store, the external catalog, the hybrid retriever and the  *)
(* generation service, or one call of get_real_policy_data with any answer *)
(* of each endpoint.                                                       *)
(***************************************************************************)
ChatInit ==
    /\ pc = "chat_start"
    /\ docs = <<>>
    /\ query \in Queries
    /\ unique_docs = <<>>
    /\ today = NoDate
    /\ ExpiryIdle
    /\ SearchIdle
    /\ RealIdle
    /\ FormatIdle
    /\ PoolIdle
    /\ AssembleIdle
    /\ RetrieverIdle
    /\ LocalIdle
    /\ CategoryIdle
    /\ PipelineIdle
    /\ openai_client \in BOOLEAN
    /\ retriever \in BOOLEAN
    /\ user_context \in UserContexts
    /\ store_answer = Pending
    /\ local_policies = <<>>
    /\ youthcenter_answer = Pending
    /\ retriever_answer = Pending
    /\ external_docs = <<>>
    /\ relevant_docs = <<>>
    /\ chat_response = NoResponse
    /\ chat_raised = FALSE

RealInit ==
    /\ pc = "real_fetch"
    /\ RankIdle
    /\ today = NoDate
    /\ ExpiryIdle
    /\ SearchIdle
    /\ ChatIdle
    /\ api_results = [i \in 1..NumEndpoints |-> <<>>]
    /\ endpoint_answers = [i \in 1..NumEndpoints |-> Pending]
    /\ real_policies = <<>>
    /\ structured_policies = <<>>
    /\ FormatIdle
    /\ PoolIdle
    /\ AssembleIdle
    /\ RetrieverIdle
    /\ LocalIdle
    /\ CategoryIdle
    /\ PipelineIdle

ServiceInit == ChatInit \/ RealInit

\* chat_with_rag without an OpenAI client: the template response
ChatTemplate ==
    /\ pc = "chat_start"
    /\ ~openai_client
    /\ chat_response' = GenerateTemplateResponse
    /\ pc' = "chat_done"
    /\ UNCHANGED <<docs, query, unique_docs, today, openai_client, retriever,
                   user_context, store_answer, local_policies, youthcenter_answer,
                   retriever_answer, external_docs, relevant_docs, chat_raised>>
    /\ UNCHANGED <<expiryVars, searchVars, realVars, formatVars, pipelineVars, categoryVars, localVars, retrieverVars, assembleVars, poolVars>>

\* step 1 and the branch of step 2 of chat_with_rag
ChatLocal ==
    /\ pc = "chat_start"
    /\ openai_client
    /\ \E answer \in AnswersOver(LocalRows, MaxLocal) :
          LET found == SearchLocalPolicies(answer)
          IN  /\ store_answer' = answer
              /\ local_policies' = found
              /\ IF Len(found) >= LocalEnough \/ ~retriever
                 THEN /\ relevant_docs' = ConvertPoliciesToDocs(found)
                      /\ pc' = "chat_context"
                 ELSE /\ pc' = "chat_external"
                      /\ UNCHANGED relevant_docs
    /\ UNCHANGED <<docs, query, unique_docs, today, openai_client, retriever,
                   user_context, youthcenter_answer, retriever_answer,
                   external_docs, chat_response, chat_raised>>
    /\ UNCHANGED <<expiryVars, searchVars, realVars, formatVars, pipelineVars, categoryVars, localVars, retrieverVars, assembleVars, poolVars>>

\* _retrieve_relevant_policies, step 1: the external catalog
RetrieveExternal ==
    /\ pc = "chat_external"
    /\ \E answer \in CatalogAnswers :
          /\ youthcenter_answer' = answer
          /\ docs' = YouthCenterDocs(answer, user_context)
    /\ pc' = "chat_hybrid"
    /\ UNCHANGED <<query, unique_docs, today, openai_client, retriever,
                   user_context, store_answer, local_policies, retriever_answer,
                   external_docs, relevant_docs, chat_response, chat_raised>>
    /\ UNCHANGED <<expiryVars, searchVars, realVars, formatVars, pipelineVars, categoryVars, localVars, retrieverVars, assembleVars, poolVars>>

\* _retrieve_relevant_policies, steps 2 and 3, and the combination with the
\* local documents in chat_with_rag
RetrieveHybrid ==
    /\ pc = "chat_hybrid"
    /\ retriever
    /\ \E answer \in AnswersOver(RetrieverRows, MaxSourceDocs) :
          LET all_docs == AllDocsAfterRetriever(docs, answer, user_context)
              ranked == DeduplicateAndRankDocs(all_docs, query)
          IN  /\ retriever_answer' = answer
              /\ docs' = all_docs
              /\ unique_docs' = ranked
              /\ external_docs' = Take(ranked, RetrieveCap)
              /\ relevant_docs' =
                     ConvertPoliciesToDocs(local_policies) \o Take(ranked, RetrieveCap)
    /\ pc' = "chat_context"
    /\ UNCHANGED <<query, today, openai_client, retriever, user_context,
                   store_answer, local_policies, youthcenter_answer, chat_response,
                   chat_raised>>
    /\ UNCHANGED <<expiryVars, searchVars, realVars, formatVars, pipelineVars, categoryVars, localVars, retrieverVars, assembleVars, poolVars>>

\* steps 3 to 5 of chat_with_rag and its except block
ChatGenerate ==
    /\ pc = "chat_context"
    /\ \E outcome \in {"ok", "failed"} :
          LET r == ChatGuarded(relevant_docs, outcome)
          IN  /\ chat_response' = r.response
              /\ chat_raised' = r.raised
    /\ pc' = "chat_done"
    /\ UNCHANGED <<docs, query, unique_docs, today, openai_client, retriever,
                   user_context, store_answer, local_policies, youthcenter_answer,
                   retriever_answer, external_docs, relevant_docs>>
    /\ UNCHANGED <<expiryVars, searchVars, realVars, formatVars, pipelineVars, categoryVars, localVars, retrieverVars, assembleVars, poolVars>>

\* one task of asyncio.gather: fetch_seoul_api_data for one endpoint
FetchEndpoint ==
    /\ pc = "real_fetch"
    /\ \E i \in 1..NumEndpoints :
          /\ endpoint_answers[i] = Pending
          /\ \E answer \in EndpointAnswers(i) :
                /\ endpoint_answers' = [endpoint_answers EXCEPT ![i] = answer]
                /\ api_results' = [api_results EXCEPT ![i] = FetchSeoulApiData(answer)]
    /\ UNCHANGED <<pc, real_policies, structured_policies, today>>
    /\ UNCHANGED <<rankVars, expiryVars, searchVars, chatVars, formatVars, pipelineVars, categoryVars, localVars, retrieverVars, assembleVars, poolVars>>

\* every task is over: the results are merged, filtered and structured
GatherResults ==
    /\ pc = "real_fetch"
    /\ \A i \in 1..NumEndpoints : endpoint_answers[i] # Pending
    /\ real_policies' = AllPoliciesAfterMerge(api_results)
    /\ structured_policies' = StructuredPolicies(AllPoliciesAfterMerge(api_results))
    /\ pc' = "real_done"
    /\ UNCHANGED <<api_results, endpoint_answers, today>>
    /\ UNCHANGED <<rankVars, expiryVars, searchVars, chatVars, formatVars, pipelineVars, categoryVars, localVars, retrieverVars, assembleVars, poolVars>>

ServiceNext ==
    \/ ChatTemplate
    \/ ChatLocal
    \/ RetrieveExternal
    \/ RetrieveHybrid
    \/ ChatGenerate
    \/ FetchEndpoint
    \/ GatherResults

SpecService == ServiceInit /\ [][ServiceNext]_vars

(***************************************************************************)
(* Specification of _retrieve_relevant_policies with many candidates: the  *)
(* catalog (max_results=10) and the retriever together give more documents *)
(* than the cap.  A candidate has a title of its own or the title of the   *)
(* first candidate.                                                        *)
(***************************************************************************)
CandidateChars == <<"c", "d", "e", "f", "g", "h", "i", "j", "k", "l", "m", "n">>

CandidateKinds == { "catalog", "retriever", "duplicate" }

Candidate(n, kind, first) ==
    [id |-> n,
     title |-> IF kind = "duplicate" /\ n > 1 THEN first ELSE <<CandidateChars[n]>>,
     page_content |-> <<>>,
     source |-> IF kind = "catalog" THEN YouthCenterSource ELSE OtherSource]

RetrieveInit ==
    /\ pc = "ret_collect"
    /\ docs = <<>>
    /\ query = <<"a">>
    /\ unique_docs = <<>>
    /\ today = NoDate
    /\ ExpiryIdle
    /\ SearchIdle
    /\ ChatIdle
    /\ RealIdle
    /\ FormatIdle
    /\ PoolIdle
    /\ AssembleIdle
    /\ RetrieverIdle
    /\ LocalIdle
    /\ CategoryIdle
    /\ PipelineIdle

\* all_docs.append(doc) / all_docs.extend(filtered_local_docs)
CollectCandidate ==
    /\ pc = "ret_collect"
    /\ Len(docs) < MaxCandidates
    /\ \E kind \in CandidateKinds :
          docs' = Append(docs, Candidate(Len(docs) + 1, kind,
                                         IF docs = <<>> THEN <<>> ELSE docs[1].title))
    /\ UNCHANGED <<pc, query, unique_docs, today>>
    /\ UNCHANGED <<expiryVars, searchVars, chatVars, realVars, formatVars, pipelineVars, categoryVars, localVars, retrieverVars, assembleVars, poolVars>>

\* step 3 of _retrieve_relevant_policies: rank, then return unique_docs[:8]
ReturnCapped ==
    /\ pc = "ret_collect"
    /\ unique_docs' = DeduplicateAndRankDocs(docs, query)
    /\ external_docs' = Take(DeduplicateAndRankDocs(docs, query), RetrieveCap)
    /\ pc' = "ret_done"
    /\ UNCHANGED <<docs, query, today, openai_client, retriever, user_context,
                   store_answer, local_policies, youthcenter_answer,
                   retriever_answer, relevant_docs, chat_response, chat_raised>>
    /\ UNCHANGED <<expiryVars, searchVars, realVars, formatVars, pipelineVars, categoryVars, localVars, retrieverVars, assembleVars, poolVars>>

RetrieveNext == CollectCandidate \/ ReturnCapped

SpecRetrieve == RetrieveInit /\ [][RetrieveNext]_vars

(***************************************************************************)
(* Specification of the formatting: a search filters what the catalog      *)
(* answered, then the policies it returned are formatted, the same day or  *)
(* after the date has changed.                                             *)
(***************************************************************************)
FormatInit ==
    /\ pc = "fmt_start"
    /\ RankIdle
    /\ today \in FormatDays
    /\ policy \in FormatPolicies
    /\ policies = ListOf(<<policy>>)
    /\ start_date = NoDate
    /\ end_date = NoDate
    /\ is_expired = FALSE
    /\ active_policies = NotIterable
    /\ SearchIdle
    /\ ChatIdle
    /\ RealIdle
    /\ FormatIdle
    /\ PoolIdle
    /\ AssembleIdle
    /\ RetrieverIdle
    /\ LocalIdle
    /\ CategoryIdle
    /\ PipelineIdle

\* the search: _filter_active_policies on what the catalog answered
SearchFiltered ==
    /\ pc = "fmt_start"
    /\ active_policies' = FilterActivePolicies(policies, today)
    /\ pc' = "fmt_found"
    /\ UNCHANGED <<today, policy, policies, start_date, end_date, is_expired>>
    /\ UNCHANGED <<rankVars, searchVars, chatVars, realVars, formatVars, pipelineVars, categoryVars, localVars, retrieverVars, assembleVars, poolVars>>

\* get_policies_by_category: the loop over the policies of the search
FormatForCategory ==
    /\ pc = "fmt_found"
    /\ \E now \in {today, NextDay(today)} :
          /\ format_day' = now
          /\ formatted_policies' = FormatLoop(active_policies.items, now)
    /\ pc' = "fmt_category_done"
    /\ UNCHANGED <<today, llm_format>>
    /\ UNCHANGED <<rankVars, expiryVars, searchVars, chatVars, realVars, pipelineVars, categoryVars, localVars, retrieverVars, assembleVars, poolVars>>

\* format_policy_for_llm on a policy of the search
FormatForLLM ==
    /\ pc = "fmt_found"
    /\ active_policies.items # <<>>
    /\ \E now \in {today, NextDay(today)} :
          /\ format_day' = now
          /\ llm_format' = FormatPolicyForLLM(active_policies.items[1], now)
    /\ pc' = "fmt_llm_done"
    /\ UNCHANGED <<today, formatted_policies>>
    /\ UNCHANGED <<rankVars, expiryVars, searchVars, chatVars, realVars, pipelineVars, categoryVars, localVars, retrieverVars, assembleVars, poolVars>>

FormatNext == SearchFiltered \/ FormatForCategory \/ FormatForLLM

SpecFormat == FormatInit /\ [][FormatNext]_vars

(***************************************************************************)
(* Specification of the ingestion of one record: its validity period is    *)
(* extracted and its status derived.                                       *)
(***************************************************************************)
PipelineInit ==
    /\ pc = "pipe_start"
    /\ RankIdle
    /\ today \in PipelineDays
    /\ ExpiryIdle
    /\ SearchIdle
    /\ ChatIdle
    /\ RealIdle
    /\ FormatIdle
    /\ PoolIdle
    /\ AssembleIdle
    /\ RetrieverIdle
    /\ LocalIdle
    /\ CategoryIdle
    /\ raw_data \in [start : RawDateFields, end : RawDateFields]
    /\ valid_from = NoDate
    /\ valid_to = NoDate
    /\ status = "-"

\* _extract_validity_period(raw_data)
ExtractPeriod ==
    /\ pc = "pipe_start"
    /\ valid_from' = ExtractValidityPeriod(raw_data)[1]
    /\ valid_to' = ExtractValidityPeriod(raw_data)[2]
    /\ pc' = "pipe_extracted"
    /\ UNCHANGED <<today, raw_data, status>>
    /\ UNCHANGED <<rankVars, expiryVars, searchVars, chatVars, realVars, formatVars, categoryVars, localVars, retrieverVars, assembleVars, poolVars>>

\* _determine_policy_status(valid_from, valid_to)
DetermineStatus ==
    /\ pc = "pipe_extracted"
    /\ status' = DeterminePolicyStatus(valid_from, valid_to, today)
    /\ pc' = "pipe_done"
    /\ UNCHANGED <<today, raw_data, valid_from, valid_to>>
    /\ UNCHANGED <<rankVars, expiryVars, searchVars, chatVars, realVars, formatVars, categoryVars, localVars, retrieverVars, assembleVars, poolVars>>

PipelineNext == ExtractPeriod \/ DetermineStatus

SpecPipeline == PipelineInit /\ [][PipelineNext]_vars

(***************************************************************************)
(* Specification of the category taxonomy: clients classify one policy     *)
(* twice and search by category in between, before and after.              *)
(***************************************************************************)
MaxSearches == 1

CategoryInit ==
    /\ pc = "cat_start"
    /\ RankIdle
    /\ today = SearchDay
    /\ ExpiryIdle
    /\ SearchIdle
    /\ ChatIdle
    /\ RealIdle
    /\ FormatIdle
    /\ PoolIdle
    /\ AssembleIdle
    /\ RetrieverIdle
    /\ LocalIdle
    /\ PipelineIdle
    /\ taxonomy = PolicyCategories
    /\ classified_policy \in ClassifiedPolicies
    /\ first_category = NotClassified
    /\ category = NotClassified
    /\ matched_category = NotClassified
    /\ searches = 0

\* search_policies_by_category(category, user_context) on any client
SearchByCategory ==
    /\ pc \in {"cat_start", "cat_classified", "cat_done"}
    /\ searches < MaxSearches
    /\ \E client \in Clients, c \in SearchedCategories, ctx \in CategoryContexts :
           /\ taxonomy' = ExtendKeywords(taxonomy, c, ctx).taxonomy
           /\ matched_category' = ExtendKeywords(taxonomy, c, ctx).matched_category
    /\ searches' = searches + 1
    /\ UNCHANGED <<pc, today, classified_policy, first_category, category>>
    /\ UNCHANGED <<rankVars, expiryVars, searchVars, chatVars, realVars, formatVars, pipelineVars, localVars, retrieverVars, assembleVars, poolVars>>

\* classify_policy_category(policy), the first call
ClassifyFirst ==
    /\ pc = "cat_start"
    /\ category' = ClassifyPolicyCategory(classified_policy, taxonomy)
    /\ first_category' = category'
    /\ pc' = "cat_classified"
    /\ UNCHANGED <<today, taxonomy, classified_policy, matched_category, searches>>
    /\ UNCHANGED <<rankVars, expiryVars, searchVars, chatVars, realVars, formatVars, pipelineVars, localVars, retrieverVars, assembleVars, poolVars>>

\* classify_policy_category(policy), a later call with the same policy
ClassifyAgain ==
    /\ pc = "cat_classified"
    /\ category' = ClassifyPolicyCategory(classified_policy, taxonomy)
    /\ pc' = "cat_done"
    /\ UNCHANGED <<today, taxonomy, classified_policy, first_category, matched_category, searches>>
    /\ UNCHANGED <<rankVars, expiryVars, searchVars, chatVars, realVars, formatVars, pipelineVars, localVars, retrieverVars, assembleVars, poolVars>>

CategoryNext == SearchByCategory \/ ClassifyFirst \/ ClassifyAgain

SpecCategory == CategoryInit /\ [][CategoryNext]_vars

(***************************************************************************)
(* Specification of search_local_policies: any table, any query, any       *)
(* context, any limit, with and without a pool, with and without faults.   *)
(***************************************************************************)
MaxTableRows == 3
MaxLimit == 2

LocalInit ==
    /\ pc = "local_start"
    /\ RankIdle
    /\ today = SearchDay
    /\ ExpiryIdle
    /\ SearchIdle
    /\ ChatIdle
    /\ RealIdle
    /\ FormatIdle
    /\ PoolIdle
    /\ AssembleIdle
    /\ RetrieverIdle
    /\ PipelineIdle
    /\ CategoryIdle
    /\ connection_pool \in {NoPool, Pool}
    /\ policies_table \in UNION { [1..k -> TableRows] : k \in 0..MaxTableRows }
    /\ db_faults \in DbFaults
    /\ local_query \in LocalQueries
    /\ local_context \in UserContexts
    /\ local_limit \in 0..MaxLimit
    /\ local_result = NotSearched

\* search_local_policies(query, user_context, limit)
SearchLocal ==
    /\ pc = "local_start"
    /\ local_result' = LocalSearchGuarded(connection_pool, db_faults, policies_table,
                                          local_query, local_context, local_limit)
    /\ pc' = "local_done"
    /\ UNCHANGED <<today, connection_pool, policies_table, db_faults, local_query,
                   local_context, local_limit>>
    /\ UNCHANGED <<rankVars, expiryVars, searchVars, chatVars, realVars, formatVars, pipelineVars, categoryVars, retrieverVars, assembleVars, poolVars>>

LocalNext == SearchLocal

SpecLocal == LocalInit /\ [][LocalNext]_vars

(***************************************************************************)
(* Specification of the retriever's life: the service is created on first  *)
(* use, and initialize_rag_system runs at startup and at every refresh.    *)
(***************************************************************************)
MaxSetups == 3
MaxCorpus == 2

RetrieverInit ==
    /\ pc = "rag_running"
    /\ RankIdle
    /\ today = SearchDay
    /\ ExpiryIdle
    /\ SearchIdle
    /\ ChatIdle
    /\ RealIdle
    /\ FormatIdle
    /\ PoolIdle
    /\ AssembleIdle
    /\ PipelineIdle
    /\ CategoryIdle
    /\ LocalIdle
    /\ rag_service = NoService
    /\ last_setup = NoSetup
    /\ setups = 0

\* get_rag_service() from an endpoint
UseRagService ==
    /\ pc = "rag_running"
    /\ ~rag_service.created
    /\ \E em \in Embeddings : rag_service' = GetRagService(rag_service, em)
    /\ UNCHANGED <<pc, today, last_setup, setups>>
    /\ UNCHANGED <<rankVars, expiryVars, searchVars, chatVars, realVars, formatVars, pipelineVars, categoryVars, localVars, assembleVars, poolVars>>

\* initialize_rag_system(db_connection): get_rag_service, then setup_retriever
InitializeRagSystem ==
    /\ pc = "rag_running"
    /\ setups < MaxSetups
    /\ \E em \in Embeddings, c \in SetupConditions(MaxCorpus) :
           /\ rag_service' = SetupRetriever(GetRagService(rag_service, em), c)
           /\ last_setup' = c
    /\ setups' = setups + 1
    /\ UNCHANGED <<pc, today>>
    /\ UNCHANGED <<rankVars, expiryVars, searchVars, chatVars, realVars, formatVars, pipelineVars, categoryVars, localVars, assembleVars, poolVars>>

RetrieverNext == UseRagService \/ InitializeRagSystem

SpecRetriever == RetrieverInit /\ [][RetrieverNext]_vars

(***************************************************************************)
(* Specification of the context assembly: any list of documents is turned  *)
(* into a context and into references.                                     *)
(***************************************************************************)
MaxAssembled == 2

AssembleInit ==
    /\ pc = "asm_start"
    /\ RankIdle
    /\ today = SearchDay
    /\ ExpiryIdle
    /\ SearchIdle
    /\ ChatIdle
    /\ RealIdle
    /\ FormatIdle
    /\ PoolIdle
    /\ PipelineIdle
    /\ CategoryIdle
    /\ LocalIdle
    /\ RetrieverIdle
    /\ assembled_docs \in UNION { [1..k -> AssembledDocs] : k \in 0..MaxAssembled }
    /\ built_context = NotBuilt
    /\ references = <<>>

\* _build_context_from_docs(docs)
BuildContext ==
    /\ pc = "asm_start"
    /\ built_context' = BuildContextFromDocs(assembled_docs)
    /\ pc' = "asm_context"
    /\ UNCHANGED <<today, assembled_docs, references>>
    /\ UNCHANGED <<rankVars, expiryVars, searchVars, chatVars, realVars, formatVars, pipelineVars, categoryVars, localVars, retrieverVars, poolVars>>

\* _extract_references_from_docs(docs)
ExtractReferences ==
    /\ pc = "asm_context"
    /\ references' = ExtractReferencesFromDocs(assembled_docs)
    /\ pc' = "asm_done"
    /\ UNCHANGED <<today, assembled_docs, built_context>>
    /\ UNCHANGED <<rankVars, expiryVars, searchVars, chatVars, realVars, formatVars, pipelineVars, categoryVars, localVars, retrieverVars, poolVars>>

AssembleNext == BuildContext \/ ExtractReferences

SpecAssemble == AssembleInit /\ [][AssembleNext]_vars

(***************************************************************************)
(* Specification of the pool initialisation: requests enter                *)
(* get_db_connection or get_db_transaction at any time and are resumed in  *)
(* any order.                                                              *)
(***************************************************************************)
MaxRequests == 3

PoolInit ==
    /\ pc = "db_running"
    /\ RankIdle
    /\ today = SearchDay
    /\ ExpiryIdle
    /\ SearchIdle
    /\ ChatIdle
    /\ RealIdle
    /\ FormatIdle
    /\ PipelineIdle
    /\ CategoryIdle
    /\ LocalIdle
    /\ RetrieverIdle
    /\ AssembleIdle
    /\ request_pc = [r \in 1..MaxRequests |-> NotCalled]
    /\ created_pools = {}

PoolFrame ==
    /\ UNCHANGED <<pc, today, policies_table, db_faults, local_query, local_context,
                   local_limit, local_result>>
    /\ UNCHANGED <<rankVars, expiryVars, searchVars, chatVars, realVars, formatVars, pipelineVars, categoryVars, retrieverVars, assembleVars>>

\* a request enters get_db_connection or get_db_transaction
CallGetDb ==
    /\ pc = "db_running"
    /\ \E r \in 1..MaxRequests, entry \in Entries :
           /\ request_pc[r] = NotCalled
           /\ request_pc' = [request_pc EXCEPT ![r] = EnterGetDb(connection_pool, entry)]
    /\ UNCHANGED <<connection_pool, created_pools>>
    /\ PoolFrame

\* asyncpg.create_pool returns to init_db, which assigns the global and
\* suspends in the connection test; or it raises and init_db re-raises
CreatePoolReturns ==
    /\ pc = "db_running"
    /\ \E r \in 1..MaxRequests :
           /\ request_pc[r].at = "create_pool"
           /\ \/ /\ connection_pool' = PoolNames[Cardinality(created_pools) + 1]
                 /\ created_pools' = created_pools \cup {connection_pool'}
                 /\ request_pc' = [request_pc EXCEPT ![r].at = "test"]
              \/ /\ request_pc' = [request_pc EXCEPT ![r].at = "raised"]
                 /\ UNCHANGED <<connection_pool, created_pools>>
    /\ PoolFrame

\* the connection test of init_db ends: init_db returns, or it re-raises
InitDbReturns ==
    /\ pc = "db_running"
    /\ \E r \in 1..MaxRequests :
           /\ request_pc[r].at = "test"
           /\ \E next \in {"acquire", "raised"} :
                  request_pc' = [request_pc EXCEPT ![r].at = next]
    /\ UNCHANGED <<connection_pool, created_pools>>
    /\ PoolFrame

\* _connection_pool.acquire() gives the request its connection
AcquireConnection ==
    /\ pc = "db_running"
    /\ \E r \in 1..MaxRequests :
           /\ request_pc[r].at = "acquire"
           /\ request_pc' = [request_pc EXCEPT ![r].at = "yielded"]
    /\ UNCHANGED <<connection_pool, created_pools>>
    /\ PoolFrame

PoolNext == CallGetDb \/ CreatePoolReturns \/ InitDbReturns \/ AcquireConnection

SpecPool == PoolInit /\ [][PoolNext]_vars

(***************************************************************************)
(* Claims about the expiry classifier and the temporal filter.             *)
(***************************************************************************)
Classified == pc \in {"exp_classified", "exp_filtered"}

KeptByFilter == active_policies.iterable /\ policy \in Range(active_policies.items)

\* C3: a policy whose application period has a known end date is closed
\* whenever that end is before today, and is not closed when the end is
\* today or later and there is no program-duration text.
C3_ClosedWhenEndBeforeToday ==
    (Classified /\ policy.kind = "dict" /\ end_date # NoDate) =>
        /\ DateLT(end_date, today) => is_expired
        /\ (~DateLT(end_date, today) /\ policy.bizPrdCn = <<>>) => ~is_expired

\* C3 witness: the application period ended yesterday and the policy is closed
C3_Witness ==
    /\ Classified
    /\ policy.kind = "dict"
    /\ end_date # NoDate
    /\ Ordinal(end_date) = Ordinal(today) - 1
    /\ is_expired

\* C5 as stated: a record whose application-period text holds a
\* rolling-admission marker is not expired and is never removed by the
\* temporal filter, whatever its other fields contain.
C5_RollingNeverExcluded ==
    (pc = "exp_filtered" /\ policies.iterable /\ policy.kind = "dict"
        /\ HasRollingMarker(policy.rqutPrdCn)) =>
        ~is_expired /\ KeptByFilter

ProgramEnded ==
    /\ policy.bizPrdCn # <<>>
    /\ ParsePolicyPeriod(policy.bizPrdCn)[2] # NoDate
    /\ DateLT(ParsePolicyPeriod(policy.bizPrdCn)[2], today)

\* C5 amended: a record whose application-period text holds a
\* rolling-admission marker is expired, and removed by the temporal filter,
\* exactly when its program-duration text parses to an end date before today;
\* nothing else in the application-period text matters.
C5_RollingKeptUnlessProgramEnded ==
    (pc = "exp_filtered" /\ policies.iterable /\ policy.kind = "dict"
        /\ HasRollingMarker(policy.rqutPrdCn)) =>
        /\ is_expired <=> ProgramEnded
        /\ KeptByFilter <=> ~ProgramEnded

\* C5 witness: a rolling-admission text that also writes a date in the past,
\* kept by the filter
C5_Witness ==
    /\ pc = "exp_filtered"
    /\ policies.iterable
    /\ policy.kind = "dict"
    /\ HasRollingMarker(policy.rqutPrdCn)
    /\ \E i \in 1..Len(policy.rqutPrdCn) :
          LET tok == policy.rqutPrdCn[i]
          IN  /\ tok.kind = "date"
              /\ tok.form = "kor"
              /\ ValidDate(tok.y, tok.m, tok.d)
              /\ DateLT([y |-> tok.y, m |-> tok.m, d |-> tok.d], today)
    /\ ~is_expired
    /\ KeptByFilter

C19_ProgramDurationCloses ==
    (Classified /\ policy.kind = "dict"
        /\ (end_date = NoDate \/ ~DateLT(end_date, today))) =>
        /\ is_expired <=> ProgramEnded
        /\ (policy.bizPrdCn = <<>> \/ ParsePolicyPeriod(policy.bizPrdCn)[2] = NoDate)
              => ~is_expired

\* C19 witness: the application period ends today or later, the program
\* duration ended before today, and the policy is closed
C19_Witness ==
    /\ Classified
    /\ policy.kind = "dict"
    /\ end_date # NoDate
    /\ ~DateLT(end_date, today)
    /\ ProgramEnded
    /\ is_expired

\* C20: for every policy of the response, remaining_days is reported
\* exactly when the application end date is known and the policy is not
\* closed, it is then the number of days from today to that end and is not
\* negative; the label is "closes today" iff it is 0, "closing soon" iff it
\* is 1..7 and "days remaining" iff it is more than 7.
C20_RemainingDaysOnlyWhenOpen ==
    (pc = "fmt_category_done" /\ ~formatted_policies.raised) =>
        \A i \in 1..Len(formatted_policies.policies) :
            LET f == formatted_policies.policies[i]
                n == f.remaining_days.days
            IN  /\ f.remaining_days.known <=> (f.end_date # NoDate /\ ~f.is_expired)
                /\ f.remaining_days.known =>
                      /\ n = Ordinal(f.end_date) - Ordinal(format_day)
                      /\ n >= 0
                      /\ f.period_status = "closes_today" <=> n = 0
                      /\ f.period_status = "closing_soon" <=> n \in 1..7
                      /\ f.period_status = "days_remaining" <=> n > 7

\* C21: a record with a period end has status open or closed, never
\* upcoming or ongoing, and it is closed exactly when the period end is
\* before today, whatever the period start is.
C21_EndKnownOpenOrClosed ==
    (pc = "pipe_done" /\ valid_to # NoDate) =>
        /\ status \in {"open", "closed"}
        /\ status = "closed" <=> DateLT(valid_to, today)

(***************************************************************************)
(* Claims about the period parser.  start_date and end_date are what       *)
(* _parse_policy_period returned for the application-period text.          *)
(***************************************************************************)
\* the text, when the field holds one
PeriodText == IF policy.rqutPrdCn = NonString THEN <<>> ELSE policy.rqutPrdCn

\* the text holds a rolling-admission marker
WritesRollingMarker == RollingToken \in Range(PeriodText)

\* the date a token writes; a two-digit year below 50 is of this century
WrittenDate(tok) ==
    [y |-> IF tok.form = "ymd2"
           THEN (IF tok.y < 50 THEN 2000 + tok.y ELSE 1900 + tok.y)
           ELSE tok.y,
     m |-> tok.m, d |-> tok.d]

\* the places of the text where a valid date is written
ValidDatePlaces ==
    { i \in 1..Len(PeriodText) :
        /\ PeriodText[i].kind = "date"
        /\ ValidDate(WrittenDate(PeriodText[i]).y, PeriodText[i].m, PeriodText[i].d) }

\* the places of the text where an impossible date is written
ImpossibleDatePlaces ==
    { i \in 1..Len(PeriodText) : PeriodText[i].kind = "date" } \ ValidDatePlaces

ValidWrittenDates == { WrittenDate(PeriodText[i]) : i \in ValidDatePlaces }

Parsed == Classified /\ policy.kind = "dict"

\* C15: for a text without rolling-admission marker that writes two or more
\* valid dates, the parser returns the earliest written date as start and
\* the latest written date as end.
C15_EarliestAndLatestWritten ==
    (Parsed /\ ~WritesRollingMarker /\ Cardinality(ValidDatePlaces) >= 2) =>
        /\ start_date \in ValidWrittenDates
        /\ end_date \in ValidWrittenDates
        /\ \A w \in ValidWrittenDates :
              Ordinal(start_date) <= Ordinal(w) /\ Ordinal(w) <= Ordinal(end_date)

\* C16: for a text without rolling-admission marker that writes exactly one
\* valid date, in any of the three forms, the parser returns no start and
\* that date as end.
C16_SingleDateIsEnd ==
    (Parsed /\ ~WritesRollingMarker /\ Cardinality(ValidDatePlaces) = 1) =>
        /\ start_date = NoDate
        /\ end_date \in ValidWrittenDates

\* C17: for a text with a rolling-admission marker the parser returns
\* (null, null), also when the text writes dates.
C17_RollingGivesNoDates ==
    (Parsed /\ WritesRollingMarker) => (start_date = NoDate /\ end_date = NoDate)

\* C17 witness: a text with a marker and a valid date, parsed to (null, null)
C17_Witness ==
    /\ Parsed
    /\ Len(PeriodText) = 2
    /\ PeriodText[1].kind = "date"
    /\ 1 \in ValidDatePlaces
    /\ PeriodText[2] = RollingToken
    /\ start_date = NoDate
    /\ end_date = NoDate

RequestFailed(response) == SearchPolicies(response, today).raised

\* the policies of an answer that the classifier does not close
ActiveItems(response) == ActiveLoop(response.items, today)

\* C4: whichever way search_policies and search_policies_by_keywords end
\* (also when a request fails part-way through the batch), no record that
\* the classifier closes is in what they return.
C4_NoClosedRecordReturned ==
    /\ \A i \in 1..Len(requests) :
          LET r == SearchPolicies(requests[i], today)
          IN  (~r.raised /\ r.data.has_key /\ r.data.youthPolicy.iterable) =>
                  \A p \in Range(r.data.youthPolicy.items) : ~IsPolicyExpired(p, today)
    /\ \A p \in Range(all_policies) : ~IsPolicyExpired(p, today)
    /\ pc = "kw_done" => \A p \in Range(result) : ~IsPolicyExpired(p, today)

\* C4 witness: a batch that ended on a failed request, after the catalog had
\* answered an earlier keyword with a closed record next to an open one
C4_Witness ==
    /\ pc = "kw_done"
    /\ Len(requests) = 2
    /\ RequestFailed(requests[2])
    /\ \E p \in Range(requests[1].items) : IsPolicyExpired(p, today)
    /\ \E p \in Range(result) : p.kind = "dict"

\* C7: when the request for one keyword fails, that keyword adds nothing,
\* the requests for all remaining keywords are still issued and their
\* results are in the returned list.
C7_FailedKeywordDoesNotAbortBatch ==
    pc = "kw_done" =>
        /\ Len(requests) = Len(keywords)
        /\ \A i \in 1..Len(requests) :
              ~RequestFailed(requests[i]) =>
                  \A p \in Range(ActiveItems(requests[i])) :
                      p.kind = "dict" => \E q \in Range(result) : q.bizId = p.bizId

\* C13: whatever the requests of the batch answered, the list
\* search_policies_by_keywords returns holds no two records with the same
\* identifier and at most max_results records.
C13_UniqueIdsWithinMaxResults ==
    pc = "kw_done" =>
        /\ Len(result) <= max_results
        /\ \A i, j \in 1..Len(result) :
              (i # j /\ result[i].kind = "dict" /\ result[j].kind = "dict")
                  => result[i].bizId # result[j].bizId

(***************************************************************************)
(* Claims about chat_with_rag and get_real_policy_data.                    *)
(***************************************************************************)
\* the normalisation the specification names: trimmed and case-folded
NormalizedTitle(doc) == Lower(Strip(doc.title))

\* C2: whatever the local store, the external catalog and the hybrid
\* retriever answered, the list handed to _build_context_from_docs holds no
\* two candidates with the same normalized title.
C2_ContextCandidatesUnique ==
    pc = "chat_context" =>
        \A i, j \in 1..Len(relevant_docs) :
            i # j => NormalizedTitle(relevant_docs[i]) # NormalizedTitle(relevant_docs[j])

\* C14: once chat_with_rag has searched the local store, the external
\* sources have been queried exactly when the store returned fewer than 3
\* records.
C14_ExternalIffLocalInsufficient ==
    (pc \in {"chat_context", "chat_done"} /\ store_answer # Pending) =>
        (Len(local_policies) < LocalEnough <=> youthcenter_answer # Pending)

\* what the hybrid retriever contributes once filtered by the user context
RetrieverContribution ==
    FilterDocsByUserContext(RetrieverDocs(retriever_answer), user_context)

\* the rows an endpoint answered with, nothing when it failed
EndpointContribution(i) ==
    IF endpoint_answers[i].kind = "ok" THEN endpoint_answers[i].items ELSE <<>>

\* C8: in _retrieve_relevant_policies, when the catalog search fails the
\* hybrid retriever's documents are ranked and returned, and when the hybrid
\* retriever fails the catalog's documents are ranked and returned; in
\* get_real_policy_data an endpoint that fails or times out gives an empty
\* list and the rows of the other endpoints are the ones merged.
C8_SourceIsolation ==
    /\ (pc \in {"chat_context", "chat_done"} /\ retriever_answer # Pending) =>
          /\ (youthcenter_answer.kind = "failed" /\ retriever_answer.kind = "ok") =>
                external_docs =
                    Take(DeduplicateAndRankDocs(RetrieverContribution, query), RetrieveCap)
          /\ (retriever_answer.kind = "failed" /\ youthcenter_answer.kind = "ok") =>
                external_docs =
                    Take(DeduplicateAndRankDocs(
                             YouthCenterDocs(youthcenter_answer, user_context), query),
                         RetrieveCap)
    /\ pc \in {"real_fetch", "real_done"} =>
          \A i \in 1..NumEndpoints :
              endpoint_answers[i].kind \notin {"ok", "pending"} => api_results[i] = <<>>
    /\ (pc = "real_done" /\ \E i \in 1..NumEndpoints : EndpointContribution(i) # <<>>) =>
              real_policies =
                  EndpointContribution(1) \o EndpointContribution(2) \o EndpointContribution(3)

\* C8 witness: the hybrid retriever failed and the documents of the catalog
\* were returned
C8_Witness ==
    /\ pc = "chat_context"
    /\ retriever_answer.kind = "failed"
    /\ youthcenter_answer.kind = "ok"
    /\ external_docs # <<>>
    /\ \A i \in 1..Len(external_docs) : external_docs[i].source = YouthCenterSource

\* C9: chat_with_rag ends by returning a response that has an answer and a
\* list of references, whatever failed; it never raises to its caller.
C9_AlwaysAnswers ==
    pc = "chat_done" =>
        /\ ~chat_raised
        /\ {"answer", "references"} \subseteq chat_response.keys
        /\ chat_response.answer # ""

\* C9 witness: the store, the catalog, the retriever and the generation all
\* failed and a response was returned
C9_Witness ==
    /\ pc = "chat_done"
    /\ store_answer.kind = "failed"
    /\ youthcenter_answer.kind = "failed"
    /\ retriever_answer.kind = "failed"
    /\ chat_response.answer = "openai_error_message"
    /\ chat_response.references = <<>>

(***************************************************************************)
(* Claims about the ranker.                                                *)
(***************************************************************************)
\* C1: no two documents of the output share a normalized (trimmed,
\* case-folded) title, and for each normalized title the first document of
\* the input carrying it is the one that survives.
C1_UniqueNormalizedTitles ==
    pc = "rank_done" =>
        /\ \A i, j \in 1..Len(unique_docs) :
              i # j => NormalizedTitle(unique_docs[i]) # NormalizedTitle(unique_docs[j])
        /\ \A i \in 1..Len(unique_docs) :
              \A j \in 1..Len(docs) :
                  NormalizedTitle(docs[j]) = NormalizedTitle(unique_docs[i])
                      => unique_docs[i].id <= docs[j].id

\* C11: the list _retrieve_relevant_policies returns is no longer than the
\* number of candidates it collected and no longer than the cap of 8.
C11_LengthWithinCap ==
    pc = "ret_done" =>
        /\ Len(external_docs) <= Len(docs)
        /\ Len(external_docs) <= RetrieveCap

\* C11 witness: more than 8 candidates with titles of their own were ranked
\* and 8 of them returned, the last candidate among them
C11_Witness ==
    /\ pc = "ret_done"
    /\ Len(unique_docs) > RetrieveCap
    /\ Len(external_docs) = RetrieveCap
    /\ \E i \in 1..RetrieveCap : external_docs[i].id = Len(docs)

\* C12: ranking the output of the ranker again with the same query gives the
\* same documents in the same order.
C12_RankIdempotent ==
    pc = "rank_done" => DeduplicateAndRankDocs(unique_docs, query) = unique_docs

\* C12 witness: a ranking that dropped a duplicate, moved a later document
\* to the front and kept two documents of equal relevance
C12_Witness ==
    /\ pc = "rank_done"
    /\ Len(docs) > Len(unique_docs)
    /\ Len(unique_docs) = 2
    /\ unique_docs[1].id > unique_docs[2].id
    /\ \E d \in Range(docs) :
          /\ d.id > unique_docs[2].id
          /\ Strip(d.title) = Strip(unique_docs[2].title)

\* the score the specification gives a candidate
ClaimedScore(doc, q) ==
    LET kws == SplitWords(Lower(q))
    IN  3 * Cardinality({ k \in kws : Contains(Lower(doc.title), k) })
        + Cardinality({ k \in kws : Contains(Lower(doc.page_content), k) })
        + (IF doc.source = YouthCenterSource THEN 2 ELSE 0)

\* C10: the output is ordered by non-increasing score (3 per query keyword
\* in the title, 1 per query keyword in the body, +2 for the external
\* catalog), and documents of equal score keep their input order.
C10_SortedByScoreStable ==
    pc = "rank_done" =>
        \A i, j \in 1..Len(unique_docs) :
            i < j =>
                /\ ClaimedScore(unique_docs[i], query) >= ClaimedScore(unique_docs[j], query)
                /\ ClaimedScore(unique_docs[i], query) = ClaimedScore(unique_docs[j], query)
                       => unique_docs[i].id < unique_docs[j].id

\* C10 witness: a ranking that moved a later document in front of an earlier
\* one and kept two documents of equal score in input order
C10_Witness ==
    /\ pc = "rank_done"
    /\ Len(unique_docs) = 3
    /\ \E i, j \in 1..3 : i < j /\ unique_docs[i].id > unique_docs[j].id
    /\ \E i, j \in 1..3 :
          /\ i < j
          /\ ClaimedScore(unique_docs[i], query) = ClaimedScore(unique_docs[j], query)
          /\ unique_docs[i].title # unique_docs[j].title

(***************************************************************************)
(* Claims about the category classifier and the category taxonomy.         *)
(***************************************************************************)
\* the points of one keyword as the claim states them
KeywordPoints(kw, p) ==
    IF Contains(p.polyBizSjnm, kw) THEN 3
    ELSE IF Contains(p.sporCn, kw) \/ Contains(p.sporTarget, kw) THEN 1
    ELSE 0

RECURSIVE SumOfPoints(_, _)
SumOfPoints(kws, p) ==
    IF kws = <<>> THEN 0 ELSE KeywordPoints(Head(kws), p) + SumOfPoints(Tail(kws), p)

CategoryTotal(c, p) == SumOfPoints(taxonomy[c], p)

DeclaredBefore(c, d) ==
    \E i, j \in 1..Len(CategoryOrder) :
        i < j /\ CategoryOrder[i] = c /\ CategoryOrder[j] = d

HasTexts(p) == NonText \notin {p.polyBizSjnm, p.sporCn, p.sporTarget}

\* the category the claim names for policy p
Wins(c, p) ==
    IF \A d \in Range(CategoryOrder) : CategoryTotal(d, p) = 0
    THEN c = Others
    ELSE /\ \A d \in Range(CategoryOrder) : CategoryTotal(d, p) <= CategoryTotal(c, p)
         /\ \A d \in Range(CategoryOrder) :
                CategoryTotal(d, p) = CategoryTotal(c, p) => ~DeclaredBefore(d, c)

OnlyStartupKeyword(p) ==
    /\ Contains(p.polyBizSjnm, <<"chang", "eop">>)
    /\ \A c \in Range(CategoryOrder) : \A kw \in Range(taxonomy[c]) :
           kw # <<"chang", "eop">> =>
               ~Contains(p.polyBizSjnm \o <<" ">> \o p.sporCn \o <<" ">> \o p.sporTarget, kw)

\* C22: a call of classify_policy_category with a policy whose fields are
\* texts returns the category with the highest total of 3 per keyword in
\* the title and 1 per keyword elsewhere, the earliest declared among equal
\* totals, the catch-all category when all totals are 0, and the startup
\* category when the only keyword of the policy is the startup keyword in
\* its title.
C22_HighestTotalWins ==
    [][ (pc' # pc /\ HasTexts(classified_policy)) =>
            /\ Wins(category', classified_policy)
            /\ OnlyStartupKeyword(classified_policy) => category' = "changeop" ]_vars

C22_Witness ==
    /\ pc = "cat_classified"
    /\ HasTexts(classified_policy)
    /\ \E c, d \in Range(CategoryOrder) :
           /\ DeclaredBefore(c, d)
           /\ CategoryTotal(c, classified_policy) = CategoryTotal(d, classified_policy)
           /\ CategoryTotal(c, classified_policy) > 0
           /\ category = c
           /\ Wins(c, classified_policy)

\* C23: a later call of classify_policy_category with the same policy
\* returns the category the first call returned, whatever category
\* searches ran in between on any client.
C23_SameCategoryOnEveryCall ==
    pc = "cat_done" => category = first_category

\* C28: after any sequence of category searches every entry of
\* POLICY_CATEGORIES holds exactly its declared keyword list.
C28_TaxonomyUnchanged ==
    taxonomy = PolicyCategories

(***************************************************************************)
(* Claims about search_local_policies.                                     *)
(***************************************************************************)
StoreUnreachable ==
    \/ connection_pool = NoPool
    \/ db_faults.acquire = "fails"
    \/ db_faults.fetch = "fails"

\* C24: search_local_policies raises nothing, returns at most `limit`
\* records, and returns the empty list when there is no connection pool or
\* when acquiring a connection or executing the query fails.
C24_NeverRaisesAtMostLimit ==
    pc = "local_done" =>
        /\ ~local_result.raised
        /\ Len(local_result.policies) <= local_limit
        /\ StoreUnreachable => local_result.policies = <<>>

C24_Witness ==
    /\ pc = "local_done"
    /\ connection_pool = Pool
    /\ db_faults = [acquire |-> "ok", fetch |-> "fails"]
    /\ \E i \in 1..Len(policies_table) : policies_table[i].status = "open"
    /\ local_limit > 0
    /\ local_result = [raised |-> FALSE, policies |-> <<>>]

(***************************************************************************)
(* Claims about the retriever of the RAG service.                          *)
(***************************************************************************)
\* the last setup had documents, built the keyword retriever and could not
\* build the semantic one
SemanticUnavailable ==
    /\ setups > 0
    /\ last_setup.documents > 0
    /\ last_setup.bm25 = "ok"
    /\ rag_service.embeddings = "None" \/ last_setup.pgvector = "fails"

\* C25: after a setup_retriever with a non-empty corpus in which the
\* semantic retriever could not be built (no embedding model, or the vector
\* store cannot be constructed), the keyword-only retriever of that corpus
\* is installed.
C25_KeywordOnlyWhenSemanticUnavailable ==
    SemanticUnavailable => rag_service.retriever = Bm25Retriever(last_setup.documents)

SetupInstalledNothing ==
    \/ last_setup.documents = 0
    \/ last_setup.bm25 = "fails"
    \/ rag_service.embeddings # "None" /\ last_setup.pgvector = "fails"

\* C30: once a retriever is installed on the RAG service, no call of
\* get_rag_service, setup_retriever or initialize_rag_system leaves the
\* service without one.
C30_RetrieverStaysInstalled ==
    [][ rag_service.retriever # NoRetriever =>
            /\ rag_service'.created
            /\ rag_service'.retriever # NoRetriever ]_vars

C30_Witness ==
    /\ setups >= 2
    /\ SetupInstalledNothing
    /\ rag_service.retriever # NoRetriever

(***************************************************************************)
(* Claims about the context assembly.                                      *)
(***************************************************************************)
\* C26: for an empty list of documents the context is the sentinel, the
\* list of references is empty and nothing is raised; for a non-empty list
\* the context is never the sentinel.
C26_SentinelIffNoDocs ==
    pc = "asm_done" =>
        /\ assembled_docs = <<>> =>
               /\ ~built_context.raised
               /\ built_context.context = SentinelContext
               /\ references = <<>>
        /\ assembled_docs # <<>> =>
               \/ built_context.raised
               \/ built_context.context # SentinelContext

C26_Witness ==
    /\ pc = "asm_done"
    /\ assembled_docs = <<>>
    /\ built_context = [raised |-> FALSE, context |-> SentinelContext]
    /\ references = <<>>

\* C27: every snippet has at most 203 characters, and it is the stripped
\* first 200 characters of the body followed by an ellipsis exactly when the
\* body has more than 200 characters.
C27_SnippetWithinBound ==
    pc = "asm_done" =>
        \A i \in 1..Len(references) :
            LET body == assembled_docs[i].page_content
                given == references[i].snippet
            IN  /\ Len(given) <= 203
                /\ Len(body) > 200 <=> given = SnippetBody(body) \o Ellipsis
                /\ Len(body) <= 200 <=> given = SnippetBody(body)

C27_Witness ==
    /\ pc = "asm_done"
    /\ Len(references) = 2
    /\ Len(assembled_docs[1].page_content) = 200
    /\ Len(references[1].snippet) = 200
    /\ Len(assembled_docs[2].page_content) = 400
    /\ Len(references[2].snippet) = 203

(***************************************************************************)
(* Claims about the initialisation of the connection pool.                 *)
(***************************************************************************)
InsideInitDb == { r \in DOMAIN request_pc : request_pc[r].at \in {"create_pool", "test"} }

\* C29: whatever the interleaving of the requests that call
\* get_db_connection or get_db_transaction, at most one request is inside
\* init_db at a time and at most one pool is ever created, so no pool is
\* replaced by another one.
C29_AtMostOnePoolCreated ==
    /\ Cardinality(InsideInitDb) <= 1
    /\ Cardinality(created_pools) <= 1

====
